---- MODULE Spec2Model ----
(***************************************************************************)
(* Model of sonic-mgmt: ansible/module_utils/port_utils.py, and the test    *)
(* helpers tests/platform_tests/thermal_control_test_helper.py,            *)
(* tests/common/devices/eos.py and tests/macsec/macsec_config_helper.py.   *)
(* Each module has its own specification (Spec, SpecThermal, SpecEos,      *)
(* SpecMacsec); the variables of the other modules stay idle in it.        *)
(*                                                                         *)
(* The repository is Python 2 code (tests/common/devices/eos.py:215 uses   *)
(* unicode(); port_utils.py:97 adds two range() lists), so range() is a    *)
(* list and "/" on integers is floor division.                             *)
(*                                                                         *)
(* A Python str is modelled as the sequence of its characters, so that     *)
(* "%d" formatting, int() parsing and the substring test 'BP' in p are     *)
(* computed and not assumed.  A dict is modelled as a function whose       *)
(* DOMAIN is the set of keys.  hwsku values are only ever compared with    *)
(* == / in against literals, so they stay atomic strings.                  *)
(***************************************************************************)
EXTENDS Integers, Sequences, FiniteSets, TLC

VARIABLES
    call,                    \* the function of port_utils.py that was called
    pc,                      \* "called", "returned" or "raised"
    asic_id,                 \* get_port_indices_for_asic: argument
    port_name_list_sorted,   \* get_port_indices_for_asic: argument
    port_index_map,          \* get_port_indices_for_asic: result
    all_ports,               \* _port_alias_to_name_map_50G: argument
    s100G_ports,             \* _port_alias_to_name_map_50G: argument
    new_map,                 \* _port_alias_to_name_map_50G: result
    hwsku,                   \* get_port_alias_to_name_map: argument
    asic_name,               \* get_port_alias_to_name_map: argument
    service,                 \* what the try block's imports and reads do
    ports_info,              \* multi_asic.get_port_table(namespace=asic_name)
    branch,                  \* "none", "try" (metadata) or "except" (static)
    rule,                    \* the branch of the if / elif chain executed (0: none)
    port_alias_to_name_map,  \* get_port_alias_to_name_map: result [0]
    port_alias_asic_map,     \* get_port_alias_to_name_map: result [1]
    port_name_to_index_map,  \* get_port_alias_to_name_map: result [2]
    exc,                     \* the exception that reached the caller
    \* tests/platform_tests/thermal_control_test_helper.py
    tcall,                   \* the helper under way ("none": no helper)
    tpc,                     \* its position
    is_multi_asic,           \* dut.is_multi_asic
    sonic_release,           \* dut.sonic_release
    policy_file,             \* DUT: content of thermal_policy.json ("absent": no file)
    backup_file,             \* DUT: content of thermal_policy.json.bak
    initial_policy,          \* content of thermal_policy.json before the with-block
    stale,                   \* the policy file changed after thermalctld last restarted
    shell_log,               \* the commands run by dut.shell, with their outputs
    reloads,                 \* number of config_reload(dut) calls
    texc,                    \* the exception that left the helper
    platform,                \* dut.facts['platform']
    registered,              \* keys of BaseMocker._mocker_type_dict
    objects,                 \* the mocker objects constructed, in creation order
    mockers,                 \* mocker_factory: the list mockers
    deinit_calls,            \* the deinit() calls made, in order (object ids)
    reboots,                 \* number of reboot(duthost, localhost) calls
    \* tests/common/devices/eos.py
    ecall,                   \* the EosHost method under way ("none": no method)
    epc,                     \* "idle", "called", "returned" or "raised"
    neigh_ips,               \* check_bgp_session_state: argument
    neigh_desc,              \* check_bgp_session_state: argument
    state,                   \* check_bgp_session_state: argument
    out_v4,                  \* answer to 'show ip bgp summary | json'
    out_v6,                  \* answer to 'show ipv6 bgp summary | json'
    session_ok,              \* check_bgp_session_state: the value returned
    mode,                    \* set_interface_lacp_rate_mode: argument
    eos_cmds,                \* the eos_config lines issued, with their outputs
    out,                     \* set_interface_lacp_rate_mode: the value returned
    eexc,                    \* the exception that left the method
    \* tests/macsec/macsec_config_helper.py
    mcall,                   \* the helper under way ("none": no helper)
    mpc,                     \* the statement it is at
    ctrl_links,              \* ctrl_links.items(), in iteration order
    default_priority,        \* setup_macsec_configuration: argument
    loop_i,                  \* setup_macsec_configuration: the counter i
    profile,                 \* per device: CONFIG_DB MACSEC_PROFILE|profile_name
    macsec_ports,            \* per device: the ports whose PORT|port has 'macsec'
    devices,                 \* cleanup_macsec_configuration: the set devices
    waited                   \* the devices whose wait_until(...) returned True

portVars == <<call, pc, asic_id, port_name_list_sorted, port_index_map,
              all_ports, s100G_ports, new_map, hwsku, asic_name, service,
              ports_info, branch, rule, port_alias_to_name_map,
              port_alias_asic_map, port_name_to_index_map, exc>>

dutVars == <<is_multi_asic, sonic_release, policy_file, backup_file,
             initial_policy, stale, shell_log, reloads>>

mockerVars == <<platform, registered, objects, mockers, deinit_calls, reboots>>

thermalVars == <<tcall, tpc, texc, dutVars, mockerVars>>

eosVars == <<ecall, epc, neigh_ips, neigh_desc, state, out_v4, out_v6,
             session_ok, mode, eos_cmds, out, eexc>>

macsecVars == <<mcall, mpc, ctrl_links, default_priority, loop_i, profile,
                macsec_ports, devices, waited>>

testVars == <<thermalVars, eosVars, macsecVars>>

vars == <<portVars, testVars>>

(***************************************************************************)
(* Bounds of the model.                                                    *)
(***************************************************************************)
MaxNameNo == 2       \* port names Ethernet<4k>, Ethernet-BP<4k>, k < MaxNameNo
MaxNameList == 3     \* length of port_name_list_sorted
MaxAsicId == 2       \* asic ids 0..MaxAsicId
MaxPortNo == 3       \* _port_alias_to_name_map_50G: port numbers 1..MaxPortNo
MaxPortList == 2     \* _port_alias_to_name_map_50G: length of each list
MaxTablePorts == 2   \* ports in the port table of the metadata service
MaxPidLines == 2     \* pgrep prints 0..MaxPidLines lines
MaxMockers == 2      \* mocker objects created by one test
MaxPeers == 1        \* peers of the default VRF in one bgp summary
MaxNeigh == 2        \* addresses in neigh_ips
MaxLinks == 2        \* control links in ctrl_links

(***************************************************************************)
(* Python strings, "%d" and int().                                         *)
(***************************************************************************)
Digits == <<"0", "1", "2", "3", "4", "5", "6", "7", "8", "9">>

RECURSIVE DecNat(_)
DecNat(n) ==
    IF n < 10 THEN <<Digits[n + 1]>>
    ELSE Append(DecNat(n \div 10), Digits[(n % 10) + 1])

\* "%d" % n
FmtD(n) == IF n < 0 THEN <<"-">> \o DecNat(-n) ELSE DecNat(n)

DigitVal(c) == CHOOSE d \in 0..9 : Digits[d + 1] = c

RECURSIVE ParseNat(_)
ParseNat(s) ==
    IF Len(s) = 0 THEN 0
    ELSE 10 * ParseNat(SubSeq(s, 1, Len(s) - 1)) + DigitVal(s[Len(s)])

\* int(s) for a string of decimal digits
IntOfStr(s) == ParseNat(s)

\* chr(ord('a') + k)
ChrA(k) == <<"a", "b", "c", "d">>[k + 1]

\* needle in s
Contains(s, needle) ==
    \E i \in 0..(Len(s) - Len(needle)) :
        \A j \in 1..Len(needle) : s[i + j] = needle[j]

StrEthernet == <<"E", "t", "h", "e", "r", "n", "e", "t">>
StrBP == <<"B", "P">>

(***************************************************************************)
(* Python lists and dicts.                                                 *)
(***************************************************************************)
\* range(lo, hi, step) as a list (Python 2), step > 0
Range(lo, hi, step) ==
    IF hi <= lo THEN <<>>
    ELSE [k \in 1..((hi - lo + step - 1) \div step) |-> lo + (k - 1) * step]

SeqRange(s) == {s[i] : i \in DOMAIN s}

EmptyDict == <<>>

\* the dict left by executing d[k] = v for each <<k, v>> of assignments, in
\* order, on an empty dict: the last assignment to a key wins
DictOf(assignments) ==
    [k \in {assignments[i][1] : i \in DOMAIN assignments} |->
        LET last == CHOOSE i \in DOMAIN assignments :
                        /\ assignments[i][1] = k
                        /\ \A j \in DOMAIN assignments :
                               assignments[j][1] = k => j <= i
        IN assignments[last][2]]

Values(d) == {d[k] : k \in DOMAIN d}

(***************************************************************************)
(* get_port_indices_for_asic(asic_id, port_name_list_sorted)               *)
(***************************************************************************)
\* asic_id is None, an int or a str of digits
NoneId == [kind |-> "none", int |-> 0, str |-> <<>>]
IntId(n) == [kind |-> "int", int |-> n, str |-> <<>>]
StrId(s) == [kind |-> "str", int |-> 0, str |-> s]

\* Python truth value of asic_id ("if asic_id:")
Truthy(id) ==
    \/ id.kind = "int" /\ id.int # 0
    \/ id.kind = "str" /\ id.str # <<>>

\* int(asic_id)
IntOf(id) == IF id.kind = "str" THEN IntOfStr(id.str) ELSE id.int

IsBackEnd(p) == Contains(p, StrBP)
IsFrontEnd(p) == ~Contains(p, StrBP)

front_end_port_name_list(names) == SelectSeq(names, IsFrontEnd)

back_end_port_name_list(names) == SelectSeq(names, IsBackEnd)

\* mutant: the offset counts every port, not the front-end ports only
index_offset_all_ports(id, names) ==
    IF Truthy(id) THEN IntOf(id) * Len(names) ELSE 0

index_offset(id, names) ==
    IF Truthy(id) THEN IntOf(id) * Len(front_end_port_name_list(names))
    ELSE 0

\* mutant: the numbering starts one too high
EnumerateFromNext(l, start) == [n \in DOMAIN l |-> <<l[n], start + n>>]

\* enumerate(l, start): the assignments port_index_map[val] = idx
Enumerate(l, start) == [n \in DOMAIN l |-> <<l[n], start + n - 1>>]

\* mutant: the back-end ports are numbered after the front-end ports
BackEndStartAfterFront(id, names) ==
    index_offset(id, names) + Len(front_end_port_name_list(names))

\* line 233: the back-end enumerate starts at index_offset too
BackEndStart(id, names) == index_offset(id, names)

get_port_indices_for_asic(id, names) ==
    DictOf(Enumerate(front_end_port_name_list(names), index_offset(id, names))
           \o Enumerate(back_end_port_name_list(names), BackEndStart(id, names)))

(***************************************************************************)
(* _port_alias_to_name_map_50G(all_ports, s100G_ports)                     *)
(***************************************************************************)
\* "Ethernet%d" % n
Eth(n) == StrEthernet \o FmtD(n)

\* "Ethernet%d/1" % n, "Ethernet%d/3" % n, "Ethernet%d/5" % n
EthSlash(n, sub) == StrEthernet \o FmtD(n) \o <<"/">> \o FmtD(sub)

\* list(set): the elements in ascending order.  The order of a Python set
\* is not specified; the loops below assign a different key per element, so
\* the dict they leave does not depend on it.
RECURSIVE ListOfSet(_)
ListOfSet(S) ==
    IF S = {} THEN <<>>
    ELSE LET x == CHOOSE x \in S : \A y \in S : x <= y
         IN <<x>> \o ListOfSet(S \ {x})

\* mutant: the 100G ports are not taken out of the 50G ports
s50G_ports_all(all, s100G) == ListOfSet(SeqRange(all))

s50G_ports(all, s100G) == ListOfSet(SeqRange(all) \ SeqRange(s100G))

Loop50G(all, s100G) ==
    LET r == s50G_ports(all, s100G)
    IN [n \in 1..(2 * Len(r)) |->
           LET i == r[(n + 1) \div 2]
           IN IF n % 2 = 1 THEN <<EthSlash(i, 1), Eth((i - 1) * 4)>>
              ELSE <<EthSlash(i, 3), Eth((i - 1) * 4 + 2)>>]

Loop100G(all, s100G) ==
    [n \in DOMAIN s100G |-> <<EthSlash(s100G[n], 1), Eth((s100G[n] - 1) * 4)>>]

port_alias_to_name_map_50G(all, s100G) ==
    DictOf(Loop50G(all, s100G) \o Loop100G(all, s100G))

(***************************************************************************)
(* get_port_alias_to_name_map(hwsku, asic_name): the static table, one     *)
(* definition per branch of the except ImportError block.  Each gives the  *)
(* assignments port_alias_to_name_map[alias] = name in execution order.    *)
(***************************************************************************)
StrFortyGigE0 == <<"f", "o", "r", "t", "y", "G", "i", "g", "E", "0", "/">>
StrFortyGigE1 == <<"f", "o", "r", "t", "y", "G", "i", "g", "E", "1", "/">>
StrHundredGigE == <<"h", "u", "n", "d", "r", "e", "d", "G", "i", "g", "E">>
StrHundredGigE0 == StrHundredGigE \o <<"0", "/">>
StrHundredGigE1 == StrHundredGigE \o <<"1", "/">>
StrTwentyfiveGigE0 ==
    <<"t", "w", "e", "n", "t", "y", "f", "i", "v", "e", "G", "i", "g", "E", "0", "/">>
StrEtp == <<"e", "t", "p">>
StrEth == <<"E", "t", "h">>
StrEthernet1 == StrEthernet \o <<"1", "/">>

\* mutant: the lane of port i is taken from port i - 1
Slash1LoopOffByOne(r) ==
    [n \in DOMAIN r |-> <<EthSlash(r[n], 1), Eth((r[n] - 2) * 4)>>]

\* for i in r: map["Ethernet%d/1" % i] = "Ethernet%d" % ((i - 1) * 4)
Slash1Loop(r) == [n \in DOMAIN r |-> <<EthSlash(r[n], 1), Eth((r[n] - 1) * 4)>>]

\* mutant: the name is the first lane of a 4-lane port
IdentityLoopLanes(r) == [n \in DOMAIN r |-> <<Eth(r[n]), Eth(r[n] * 4)>>]

\* for i in r: map["Ethernet%d" % i] = "Ethernet%d" % i
IdentityLoop(r) == [n \in DOMAIN r |-> <<Eth(r[n]), Eth(r[n])>>]

Force10_S6000 ==
    LET r == Range(0, 128, 4)
    IN [n \in DOMAIN r |-> <<StrFortyGigE0 \o FmtD(r[n]), Eth(r[n])>>]

\* for i in range(0, 4): for j in range(0, 16)
Force10_S6100 ==
    [n \in 1..64 |->
        LET i == (n - 1) \div 16
            j == (n - 1) % 16
        IN <<StrFortyGigE1 \o FmtD(i + 1) \o <<"/">> \o FmtD(j + 1),
             Eth(i * 16 + j)>>]

Force10_Z9100 ==
    LET r == Range(0, 128, 4)
    IN [n \in DOMAIN r |-> <<StrHundredGigE1 \o FmtD(r[n] \div 4 + 1), Eth(r[n])>>]

\* alias = "etp{}".format(33 if i == 256 else 34)
Etp10G(r) ==
    [n \in DOMAIN r |-> <<StrEtp \o FmtD(IF r[n] = 256 THEN 33 ELSE 34), Eth(r[n])>>]

\* alias = "etp{}".format((i // 8) + 1)
Etp400G(r) == [n \in DOMAIN r |-> <<StrEtp \o FmtD(r[n] \div 8 + 1), Eth(r[n])>>]

DellEMC_Z9332f_M_O16C64 ==
    LET s100G == Range(0, 96, 2) \o Range(128, 160, 2)
        s400G == Range(96, 128, 8) \o Range(160, 256, 8)
        s10G == Range(256, 258, 1)
    IN [n \in DOMAIN s100G |->
           <<StrEtp \o FmtD((s100G[n] + 8) \div 8)
                    \o <<ChrA((s100G[n] \div 2) % 4)>>,
             Eth(s100G[n])>>]
       \o Etp400G(s400G) \o Etp10G(s10G)

DellEMC_Z9332f_O32 == Etp400G(Range(0, 256, 8)) \o Etp10G(Range(256, 258, 1))

Arista_7050_QX32 ==
    LET r == Range(25, 33, 1)
    IN Slash1Loop(Range(1, 25, 1))
       \o [n \in DOMAIN r |-> <<Eth(r[n]), Eth((r[n] - 1) * 4)>>]

Arista_7050_QX_32S ==
    LET r1 == Range(0, 4, 1)
        r2 == Range(6, 29, 1)
        r3 == Range(29, 37, 1)
    IN [n \in DOMAIN r1 |-> <<StrEthernet1 \o FmtD(r1[n] + 1), Eth(r1[n])>>]
       \o [n \in DOMAIN r2 |-> <<EthSlash(r2[n], 1), Eth((r2[n] - 5) * 4)>>]
       \o [n \in DOMAIN r3 |-> <<Eth(r3[n]), Eth((r3[n] - 5) * 4)>>]

Arista_7280CR3_C40 ==
    LET r == Range(33, 41, 2)
    IN Slash1Loop(Range(1, 33, 1))
       \o [n \in 1..(2 * Len(r)) |->
              LET i == r[(n + 1) \div 2]
              IN IF n % 2 = 1 THEN <<EthSlash(i, 1), Eth((i - 1) * 4)>>
                 ELSE <<EthSlash(i, 5), Eth(i * 4)>>]

Arista_7260CX3_C64 == Slash1Loop(Range(1, 65, 1))

Arista_7060CX_32S_C32 == Slash1Loop(Range(1, 33, 1))

\* alias = "etp%d" % (i / 4 + 1) + ("a" if i % 4 == 0 else "b")
Mlnx50G(r) ==
    [n \in DOMAIN r |->
        <<StrEtp \o FmtD(r[n] \div 4 + 1) \o (IF r[n] % 4 = 0 THEN <<"a">> ELSE <<"b">>),
          Eth(r[n])>>]

\* alias = "etp%d" % (i / 4 + 1)
Mlnx100G(r) == [n \in DOMAIN r |-> <<StrEtp \o FmtD(r[n] \div 4 + 1), Eth(r[n])>>]

Mellanox_SN2700_D40C8S8 ==
    LET s10G == Range(0, 4, 1) \o Range(8, 12, 1)
        s50G == Range(16, 24, 2) \o Range(40, 88, 2) \o Range(104, 128, 2)
        s100G == Range(24, 40, 4) \o Range(88, 104, 4)
    IN [n \in DOMAIN s10G |->
           <<StrEtp \o FmtD(s10G[n] \div 4 + 1) \o <<ChrA(s10G[n] % 4)>>,
             Eth(s10G[n])>>]
       \o Mlnx50G(s50G) \o Mlnx100G(s100G)

Mellanox_SN2700_D48C8 ==
    LET s50G == Range(0, 24, 2) \o Range(40, 88, 2) \o Range(104, 128, 2)
        s100G == Range(24, 40, 4) \o Range(88, 104, 4)
    IN Mlnx50G(s50G) \o Mlnx100G(s100G)

\* for i in r: map["etp%d" % i] = "Ethernet%d" % ((i - 1) * 4)
EtpLoop(r) == [n \in DOMAIN r |-> <<StrEtp \o FmtD(r[n]), Eth((r[n] - 1) * 4)>>]

Mellanox_SN2700 == EtpLoop(Range(1, 33, 1))

Arista_7060CX_32S_D48C8 ==
    port_alias_to_name_map_50G(Range(1, 33, 1), Range(7, 11, 1) \o Range(23, 27, 1))

Arista_7260CX3_D108C8 ==
    port_alias_to_name_map_50G(Range(1, 65, 1), Range(13, 21, 1))

Arista_7800R3_48CQ_LC == Slash1Loop(Range(1, 48, 1))

INGRASYS_S9100_C32 == Slash1Loop(Range(1, 33, 1))

INGRASYS_S9130_32X == Slash1Loop(Range(1, 33, 1))

\* for i in r: map["Ethernet%d" % i] = "Ethernet%d" % (i - 1)
\* for i in r2: map["Ethernet%d/1" % i] = "Ethernet%d" % ((i - 49) * 4 + 48)
IngrasysS8900(r, r2) ==
    [n \in DOMAIN r |-> <<Eth(r[n]), Eth(r[n] - 1)>>]
    \o [n \in DOMAIN r2 |-> <<EthSlash(r2[n], 1), Eth((r2[n] - 49) * 4 + 48)>>]

INGRASYS_S8900_54XC == IngrasysS8900(Range(1, 49, 1), Range(49, 55, 1))

INGRASYS_S8900_64XC == IngrasysS8900(Range(1, 49, 1), Range(49, 65, 1))

Accton_AS7712_32X ==
    LET r == Range(1, 33, 1)
    IN [n \in DOMAIN r |-> <<StrHundredGigE \o FmtD(r[n]), Eth((r[n] - 1) * 4)>>]

Celestica_DX010_C32 == EtpLoop(Range(1, 33, 1))

Seastone_DX010 ==
    LET r == Range(1, 33, 1)
    IN [n \in DOMAIN r |-> <<StrEth \o FmtD(r[n]), Eth((r[n] - 1) * 4)>>]

Celestica_E1031_T48S4 ==
    LET r == Range(1, 53, 1)
    IN [n \in DOMAIN r |-> <<StrEtp \o FmtD(r[n]), Eth(r[n] - 1)>>]

et6448m == IdentityLoop(Range(0, 52, 1))

Nokia_IXR7250E_36x400G == IdentityLoop(Range(0, 36, 1))

\* port_alias_to_name_map = {}
Nokia_IXR7250E_SUP_10 == EmptyDict

newport == IdentityLoop(Range(0, 256, 8))

Sku_32x100Gb == IdentityLoop(Range(0, 32, 1))

Sku_36x100Gb == IdentityLoop(Range(0, 36, 1))

Sku_64x100Gb == IdentityLoop(Range(0, 64, 1))

Sku_8800_LC_48H_O == IdentityLoop(Range(0, 48, 1))

\* for i in r: map["Ethernet1/%d" % i] = "Ethernet%d" % ((i - 1) * 4)
Ethernet1Loop(r) ==
    [n \in DOMAIN r |-> <<StrEthernet1 \o FmtD(r[n]), Eth((r[n] - 1) * 4)>>]

msft_multi_asic_vs == Ethernet1Loop(Range(1, 65, 1))

msft_four_asic_vs == Ethernet1Loop(Range(1, 9, 1))

B6510_48VS8CQ ==
    LET r == Range(1, 49, 1)
        r2 == Range(49, 57, 1)
    IN [n \in DOMAIN r |-> <<StrTwentyfiveGigE0 \o FmtD(r[n]), Eth(r[n])>>]
       \o [n \in DOMAIN r2 |-> <<StrHundredGigE0 \o FmtD(r2[n] - 48), Eth(r2[n])>>]

RA_B6910_64C ==
    LET r == Range(1, 65, 1)
    IN [n \in DOMAIN r |-> <<StrHundredGigE \o FmtD(r[n]), Eth(r[n])>>]

\* mutant: the default range stops one port early
DefaultRuleShort == IdentityLoop(Range(0, 124, 4))

\* the else branch
DefaultRule == IdentityLoop(Range(0, 128, 4))

\* the conditions of the if / elif chain of the except block, in declaration
\* order: the hwsku strings each one accepts
BranchSkus ==
    << {"Force10-S6000"},
       {"Force10-S6100"},
       {"Force10-Z9100"},
       {"DellEMC-Z9332f-M-O16C64"},
       {"DellEMC-Z9332f-O32"},
       {"Arista-7050-QX32"},
       {"Arista-7050-QX-32S"},
       {"Arista-7280CR3-C40"},
       {"Arista-7260CX3-C64", "Arista-7170-64C", "Arista-7260CX3-Q64"},
       {"Arista-7060CX-32S-C32", "Arista-7060CX-32S-Q32",
        "Arista-7060CX-32S-C32-T1", "Arista-7170-32CD-C32",
        "Arista-7050CX3-32S-C32"},
       {"Mellanox-SN2700-D40C8S8"},
       {"Mellanox-SN2700-D48C8"},
       {"Mellanox-SN2700", "ACS-MSN2700"},
       {"Arista-7060CX-32S-D48C8"},
       {"Arista-7260CX3-D108C8"},
       {"Arista-7800R3-48CQ-LC", "Arista-7800R3K-48CQ-LC"},
       {"INGRASYS-S9100-C32"},
       {"INGRASYS-S9100-C32", "INGRASYS-S9130-32X", "INGRASYS-S8810-32Q"},
       {"INGRASYS-S8900-54XC"},
       {"INGRASYS-S8900-64XC"},
       {"Accton-AS7712-32X"},
       {"Celestica-DX010-C32"},
       {"Seastone-DX010"},
       {"Celestica-E1031-T48S4", "Nokia-7215", "Nokia-M0-7215"},
       {"et6448m"},
       {"Nokia-IXR7250E-36x400G"},
       {"Nokia-IXR7250E-SUP-10"},
       {"newport"},
       {"32x100Gb"},
       {"36x100Gb"},
       {"64x100Gb"},
       {"8800-LC-48H-O", "88-LC0-36FH-MO"},
       {"msft_multi_asic_vs"},
       {"msft_four_asic_vs"},
       {"B6510-48VS8CQ", "RA-B6510-48V8C"},
       {"RA-B6910-64C"} >>

\* the else branch comes after the last elif
ElseBranch == Len(BranchSkus) + 1

Matching(sku) == {i \in DOMAIN BranchSkus : sku \in BranchSkus[i]}

\* mutant: a chain of separate ifs, where the last matching branch wins
LastMatch(sku) ==
    IF Matching(sku) = {} THEN ElseBranch
    ELSE CHOOSE i \in Matching(sku) : \A j \in Matching(sku) : j <= i

\* if / elif: the first branch whose condition holds is the one executed
FirstMatch(sku) ==
    IF Matching(sku) = {} THEN ElseBranch
    ELSE CHOOSE i \in Matching(sku) : \A j \in Matching(sku) : i <= j

\* the body of branch i: the dict it leaves in port_alias_to_name_map
RuleOf(i) ==
    CASE i = 1 -> DictOf(Force10_S6000)
      [] i = 2 -> DictOf(Force10_S6100)
      [] i = 3 -> DictOf(Force10_Z9100)
      [] i = 4 -> DictOf(DellEMC_Z9332f_M_O16C64)
      [] i = 5 -> DictOf(DellEMC_Z9332f_O32)
      [] i = 6 -> DictOf(Arista_7050_QX32)
      [] i = 7 -> DictOf(Arista_7050_QX_32S)
      [] i = 8 -> DictOf(Arista_7280CR3_C40)
      [] i = 9 -> DictOf(Arista_7260CX3_C64)
      [] i = 10 -> DictOf(Arista_7060CX_32S_C32)
      [] i = 11 -> DictOf(Mellanox_SN2700_D40C8S8)
      [] i = 12 -> DictOf(Mellanox_SN2700_D48C8)
      [] i = 13 -> DictOf(Mellanox_SN2700)
      [] i = 14 -> Arista_7060CX_32S_D48C8
      [] i = 15 -> Arista_7260CX3_D108C8
      [] i = 16 -> DictOf(Arista_7800R3_48CQ_LC)
      [] i = 17 -> DictOf(INGRASYS_S9100_C32)
      [] i = 18 -> DictOf(INGRASYS_S9130_32X)
      [] i = 19 -> DictOf(INGRASYS_S8900_54XC)
      [] i = 20 -> DictOf(INGRASYS_S8900_64XC)
      [] i = 21 -> DictOf(Accton_AS7712_32X)
      [] i = 22 -> DictOf(Celestica_DX010_C32)
      [] i = 23 -> DictOf(Seastone_DX010)
      [] i = 24 -> DictOf(Celestica_E1031_T48S4)
      [] i = 25 -> DictOf(et6448m)
      [] i = 26 -> DictOf(Nokia_IXR7250E_36x400G)
      [] i = 27 -> Nokia_IXR7250E_SUP_10
      [] i = 28 -> DictOf(newport)
      [] i = 29 -> DictOf(Sku_32x100Gb)
      [] i = 30 -> DictOf(Sku_36x100Gb)
      [] i = 31 -> DictOf(Sku_64x100Gb)
      [] i = 32 -> DictOf(Sku_8800_LC_48H_O)
      [] i = 33 -> DictOf(msft_multi_asic_vs)
      [] i = 34 -> DictOf(msft_four_asic_vs)
      [] i = 35 -> DictOf(B6510_48VS8CQ)
      [] i = 36 -> DictOf(RA_B6910_64C)
      [] OTHER -> DictOf(DefaultRule)

\* the except block: the map left by the branch executed for sku
StaticTable(sku) == RuleOf(FirstMatch(sku))

(***************************************************************************)
(* get_port_alias_to_name_map(hwsku, asic_name): the try block.            *)
(***************************************************************************)
HWSKU_WITH_PORT_INDEX_FROM_PORT_CONFIG == {"8800-LC-48H-O", "88-LC0-36FH-MO"}

\* for port, port_data in ports_info.items(), the ports visited in `order`:
\* the assignments each of the three ifs of the loop body makes
AliasAssignments(info, order) ==
    LET has == SelectSeq(order, LAMBDA port : "alias" \in DOMAIN info[port])
    IN [n \in DOMAIN has |-> <<info[has[n]]["alias"], has[n]>>]

AsicAssignments(info, order) ==
    LET has == SelectSeq(order, LAMBDA port : "asic_port_name" \in DOMAIN info[port])
    IN [n \in DOMAIN has |-> <<info[has[n]]["asic_port_name"], has[n]>>]

\* mutant: the index is recorded for every hwsku
RecordsIndexAnySku(sku, port_data) == "index" \in DOMAIN port_data

RecordsIndex(sku, port_data) ==
    "index" \in DOMAIN port_data /\ sku \in HWSKU_WITH_PORT_INDEX_FROM_PORT_CONFIG

IndexAssignments(sku, info, order) ==
    LET has == SelectSeq(order, LAMBDA port : RecordsIndex(sku, info[port]))
    IN [n \in DOMAIN has |-> <<has[n], IntOfStr(info[has[n]]["index"])>>]

\* the orders in which a dict with these keys may be iterated
Orders(keys) ==
    {o \in [1..Cardinality(keys) -> keys] : SeqRange(o) = keys}

(***************************************************************************)
(* The inputs the calls are made with.                                     *)
(***************************************************************************)
SeqsUpTo(S, n) == UNION {[1..k -> S] : k \in 0..n}

IsDistinct(l) == \A i, j \in DOMAIN l : l[i] = l[j] => i = j

\* front-end ports are named Ethernet<N>, back-end ports Ethernet-BP<N>
FrontName(n) == Eth(n)
BackName(n) == StrEthernet \o <<"-">> \o StrBP \o FmtD(n)

PortNames == {FrontName(4 * k) : k \in 0..(MaxNameNo - 1)}
             \cup {BackName(4 * k) : k \in 0..(MaxNameNo - 1)}

\* a list of port names names every port once; the function does not rely
\* on the order, so every order is drawn
PortNameLists == {l \in SeqsUpTo(PortNames, MaxNameList) : IsDistinct(l)}

AsicIds == {NoneId} \cup {IntId(n) : n \in 0..MaxAsicId}
           \cup {StrId(FmtD(n)) : n \in 0..MaxAsicId}

PortNoLists == SeqsUpTo(1..MaxPortNo, MaxPortList)

\* every hwsku string a branch of the static table names
Catalog ==
    {"Force10-S6000", "Force10-S6100", "Force10-Z9100",
     "DellEMC-Z9332f-M-O16C64", "DellEMC-Z9332f-O32", "Arista-7050-QX32",
     "Arista-7050-QX-32S", "Arista-7280CR3-C40", "Arista-7260CX3-C64",
     "Arista-7170-64C", "Arista-7260CX3-Q64", "Arista-7060CX-32S-C32",
     "Arista-7060CX-32S-Q32", "Arista-7060CX-32S-C32-T1",
     "Arista-7170-32CD-C32", "Arista-7050CX3-32S-C32",
     "Mellanox-SN2700-D40C8S8", "Mellanox-SN2700-D48C8", "Mellanox-SN2700",
     "ACS-MSN2700", "Arista-7060CX-32S-D48C8", "Arista-7260CX3-D108C8",
     "Arista-7800R3-48CQ-LC", "Arista-7800R3K-48CQ-LC", "INGRASYS-S9100-C32",
     "INGRASYS-S9130-32X", "INGRASYS-S8810-32Q", "INGRASYS-S8900-54XC",
     "INGRASYS-S8900-64XC", "Accton-AS7712-32X", "Celestica-DX010-C32",
     "Seastone-DX010", "Celestica-E1031-T48S4", "Nokia-7215", "Nokia-M0-7215",
     "et6448m", "Nokia-IXR7250E-36x400G", "Nokia-IXR7250E-SUP-10", "newport",
     "32x100Gb", "36x100Gb", "64x100Gb", "8800-LC-48H-O", "88-LC0-36FH-MO",
     "msft_multi_asic_vs", "msft_four_asic_vs", "B6510-48VS8CQ",
     "RA-B6510-48V8C", "RA-B6910-64C"}

\* hwsku strings no branch names
UnknownSkus == {"totally-fake-sku-123", "force10-s6000"}

HwSkus == Catalog \cup UnknownSkus

AsicNames == {"None", "asic0"}

\* what the try block meets: the imports and reads succeed ("ok"), an import
\* raises ImportError ("ImportError"), or load_db_config() /
\* get_port_table() raises: an ImportError of its own ("DbImportError") or
\* another exception ("DbError")
Services == {"ok", "ImportError", "DbImportError", "DbError"}

\* a port record: a dict with any of the fields alias, asic_port_name, index
FieldValues(f) ==
    IF f = "alias" THEN {StrEtp \o <<"1">>, StrEtp \o <<"2">>}
    ELSE IF f = "asic_port_name" THEN {StrEth \o <<"0">>}
    ELSE {<<"1", "2">>}

PortFields == {"alias", "asic_port_name", "index"}

PortData ==
    UNION {{d \in [F -> UNION {FieldValues(f) : f \in PortFields}] :
               \A f \in F : d[f] \in FieldValues(f)} : F \in SUBSET PortFields}

TablePorts == {Eth(4 * k) : k \in 0..(MaxTablePorts - 1)}

PortTables == UNION {[P -> PortData] : P \in SUBSET TablePorts}

(***************************************************************************)
(* The state machine: one call of one function of port_utils.py.           *)
(***************************************************************************)
NoIndicesCall ==
    /\ asic_id = NoneId
    /\ port_name_list_sorted = <<>>
    /\ port_index_map = EmptyDict

No50GCall ==
    /\ all_ports = <<>>
    /\ s100G_ports = <<>>
    /\ new_map = EmptyDict

NoAliasCall ==
    /\ hwsku = ""
    /\ asic_name = "None"
    /\ service = "ok"
    /\ ports_info = EmptyDict

\* lines 16-18: the three maps start empty
LocalsInit ==
    /\ branch = "none"
    /\ port_alias_to_name_map = EmptyDict
    /\ port_alias_asic_map = EmptyDict
    /\ port_name_to_index_map = EmptyDict
    /\ exc = "None"
    /\ rule = 0

InitIndices ==
    /\ call = "get_port_indices_for_asic"
    /\ asic_id \in AsicIds
    /\ port_name_list_sorted \in PortNameLists
    /\ port_index_map = EmptyDict
    /\ No50GCall /\ NoAliasCall

Init50G ==
    /\ call = "_port_alias_to_name_map_50G"
    /\ all_ports \in PortNoLists
    /\ s100G_ports \in PortNoLists
    /\ new_map = EmptyDict
    /\ NoIndicesCall /\ NoAliasCall

\* the port table is read only when the service answers
InitAlias ==
    /\ call = "get_port_alias_to_name_map"
    /\ hwsku \in HwSkus
    /\ asic_name \in AsicNames
    /\ service \in Services
    /\ ports_info \in (IF service = "ok" THEN PortTables ELSE {EmptyDict})
    /\ NoIndicesCall /\ No50GCall

\* no helper of thermal_control_test_helper.py is under way
NoThermalCall ==
    /\ tcall = "none"
    /\ tpc = "idle"
    /\ texc = "None"
    /\ is_multi_asic = FALSE
    /\ sonic_release = "202012"
    /\ policy_file = "absent"
    /\ backup_file = "absent"
    /\ initial_policy = "absent"
    /\ stale = FALSE
    /\ shell_log = <<>>
    /\ reloads = 0
    /\ platform = <<>>
    /\ registered = {}
    /\ objects = <<>>
    /\ mockers = <<>>
    /\ deinit_calls = <<>>
    /\ reboots = 0

\* what set_interface_lacp_rate_mode holds in out before any eos_config
NoOutput == [failed |-> FALSE, changed |-> FALSE]

\* the answer to a bgp summary command that was not sent
NoSummary == [inactive |-> FALSE, has_default |-> FALSE, peers |-> <<>>]

\* no method of EosHost is under way
NoEosCall ==
    /\ ecall = "none"
    /\ epc = "idle"
    /\ neigh_ips = <<>>
    /\ neigh_desc = <<>>
    /\ state = <<>>
    /\ out_v4 = NoSummary
    /\ out_v6 = NoSummary
    /\ session_ok = FALSE
    /\ mode = ""
    /\ eos_cmds = <<>>
    /\ out = NoOutput
    /\ eexc = "None"

\* the DUT and the neighbour hosts of the testbed
Devices == {"dut", "nbr1", "nbr2"}

NbrHosts == Devices \ {"dut"}

\* a device without MACSEC_PROFILE|profile_name
NoProfile == [present |-> FALSE, priority |-> 0]

\* CONFIG_DB of every device without MACsec configuration
CleanDb ==
    /\ profile = [d \in Devices |-> NoProfile]
    /\ macsec_ports = [d \in Devices |-> {}]

\* no helper of macsec_config_helper.py is under way
NoMacsecCall ==
    /\ mcall = "none"
    /\ mpc = "idle"
    /\ ctrl_links = <<>>
    /\ default_priority = 0
    /\ loop_i = 0
    /\ CleanDb
    /\ devices = {}
    /\ waited = {}

Init ==
    /\ pc = "called"
    /\ LocalsInit
    /\ \/ InitIndices
       \/ Init50G
       \/ InitAlias
    /\ NoThermalCall
    /\ NoEosCall
    /\ NoMacsecCall

CallIndices ==
    /\ UNCHANGED testVars
    /\ pc = "called"
    /\ call = "get_port_indices_for_asic"
    /\ port_index_map' = get_port_indices_for_asic(asic_id, port_name_list_sorted)
    /\ pc' = "returned"
    /\ UNCHANGED <<call, asic_id, port_name_list_sorted, all_ports, s100G_ports,
                   new_map, hwsku, asic_name, service, ports_info, branch,
                   rule, port_alias_to_name_map, port_alias_asic_map,
                   port_name_to_index_map, exc>>

Call50G ==
    /\ UNCHANGED testVars
    /\ pc = "called"
    /\ call = "_port_alias_to_name_map_50G"
    /\ new_map' = port_alias_to_name_map_50G(all_ports, s100G_ports)
    /\ pc' = "returned"
    /\ UNCHANGED <<call, asic_id, port_name_list_sorted, port_index_map,
                   all_ports, s100G_ports, hwsku, asic_name, service,
                   ports_info, branch, rule, port_alias_to_name_map,
                   port_alias_asic_map, port_name_to_index_map, exc>>

\* mutant: an empty port table falls back to the static table
TryBlockStaticWhenEmpty ==
    /\ service = "ok"
    /\ \E order \in Orders(DOMAIN ports_info) :
           /\ port_alias_to_name_map' =
                  IF DOMAIN ports_info = {} THEN StaticTable(hwsku)
                  ELSE DictOf(AliasAssignments(ports_info, order))
           /\ port_alias_asic_map' = DictOf(AsicAssignments(ports_info, order))
           /\ port_name_to_index_map' =
                  DictOf(IndexAssignments(hwsku, ports_info, order))
    /\ branch' = "try"
    /\ pc' = "returned"
    /\ UNCHANGED <<exc, rule>>

\* lines 20-31: the imports and reads succeed and the loop runs
TryBlock ==
    /\ service = "ok"
    /\ \E order \in Orders(DOMAIN ports_info) :
           /\ port_alias_to_name_map' = DictOf(AliasAssignments(ports_info, order))
           /\ port_alias_asic_map' = DictOf(AsicAssignments(ports_info, order))
           /\ port_name_to_index_map' =
                  DictOf(IndexAssignments(hwsku, ports_info, order))
    /\ branch' = "try"
    /\ pc' = "returned"
    /\ UNCHANGED <<exc, rule>>

\* mutant: the static path fills the index map for the allow-list SKUs
ExceptImportErrorWithIndex ==
    /\ service = "ImportError"
    /\ port_alias_to_name_map' = StaticTable(hwsku)
    /\ port_name_to_index_map' =
           IF hwsku \in HWSKU_WITH_PORT_INDEX_FROM_PORT_CONFIG
           THEN [k \in DOMAIN StaticTable(hwsku) |-> 0]
           ELSE port_name_to_index_map
    /\ branch' = "except"
    /\ rule' = FirstMatch(hwsku)
    /\ pc' = "returned"
    /\ UNCHANGED <<port_alias_asic_map, exc>>

\* mutant: no except clause, the ImportError leaves the function
ExceptImportErrorUncaught ==
    /\ service = "ImportError"
    /\ branch' = "try"
    /\ pc' = "raised"
    /\ exc' = "ImportError"
    /\ UNCHANGED <<port_alias_to_name_map, port_alias_asic_map,
                   port_name_to_index_map, rule>>

\* lines 32-218: an ImportError was raised in the try block (by an import
\* or by a call of lines 23-24), before the loop wrote anything
ExceptImportError ==
    /\ service \in {"ImportError", "DbImportError"}
    /\ port_alias_to_name_map' = StaticTable(hwsku)
    /\ branch' = "except"
    /\ rule' = FirstMatch(hwsku)
    /\ pc' = "returned"
    /\ UNCHANGED <<port_alias_asic_map, port_name_to_index_map, exc>>

\* mutant: a bare except, every exception is turned into the static table
PropagateSwallowed ==
    /\ service = "DbError"
    /\ port_alias_to_name_map' = StaticTable(hwsku)
    /\ branch' = "except"
    /\ rule' = FirstMatch(hwsku)
    /\ pc' = "returned"
    /\ UNCHANGED <<port_alias_asic_map, port_name_to_index_map, exc>>

\* an exception that is no ImportError leaves the function
Propagate ==
    /\ service = "DbError"
    /\ branch' = "try"
    /\ pc' = "raised"
    /\ exc' = "DbError"
    /\ UNCHANGED <<port_alias_to_name_map, port_alias_asic_map,
                   port_name_to_index_map, rule>>

CallAlias ==
    /\ UNCHANGED testVars
    /\ pc = "called"
    /\ call = "get_port_alias_to_name_map"
    /\ \/ TryBlock
       \/ ExceptImportError
       \/ Propagate
    /\ UNCHANGED <<call, asic_id, port_name_list_sorted, port_index_map,
                   all_ports, s100G_ports, new_map, hwsku, asic_name, service,
                   ports_info>>

Next ==
    \/ CallIndices
    \/ Call50G
    \/ CallAlias

Spec == Init /\ [][Next]_vars

(***************************************************************************)
(* tests/platform_tests/thermal_control_test_helper.py                     *)
(*                                                                         *)
(* The DUT is reached through dut.shell / dut.stat / dut.command /         *)
(* dut.copy.  dut.shell returns the structured output of the command (rc   *)
(* and stdout_lines), which the helper inspects; what the command prints   *)
(* is the environment's choice.  mv and copy act on the two files of the   *)
(* DUT as the commands do.                                                 *)
(***************************************************************************)

\* no function of port_utils.py is under way
NoPortCall ==
    /\ call = "none"
    /\ pc = "idle"
    /\ LocalsInit
    /\ NoIndicesCall /\ No50GCall /\ NoAliasCall

\* output of dut.shell(cmd): the return code and the number of stdout lines
ShellOutputs == [rc : {0, 1}, lines : 0..MaxPidLines]

FindPid(output) ==
    [cmd |-> "find_thermalctld_pid_cmd", rc |-> output.rc, lines |-> output.lines]

RestartCmd(rc) == [cmd |-> "restart_thermalctl_cmd", rc |-> rc, lines |-> 0]

\* the two asserts that follow a pid lookup
PidLookupOk(output) == output.rc = 0 /\ output.lines >= 2

\* mutant: no pid lookup after the restart
restart_without_second_lookup(multi, release, find1, restart_rc, find2) ==
    IF multi /\ release \in {"201911"}
    THEN [ok |-> TRUE, log |-> <<>>, reloads |-> 0, restarted |-> FALSE]
    ELSE IF ~PidLookupOk(find1)
    THEN [ok |-> FALSE, log |-> <<FindPid(find1)>>, reloads |-> 0,
          restarted |-> FALSE]
    ELSE IF restart_rc = 0
    THEN [ok |-> TRUE, log |-> <<FindPid(find1), RestartCmd(restart_rc)>>,
          reloads |-> 0, restarted |-> TRUE]
    ELSE [ok |-> FALSE, log |-> <<FindPid(find1), RestartCmd(restart_rc)>>,
          reloads |-> 1, restarted |-> FALSE]

\* restart_thermal_control_daemon(dut), lines 261-292.  find1, restart_rc and
\* find2 are what the three commands answer when they are run.  The result:
\* whether the function returned (ok) or an assert failed, the commands it
\* ran, the number of config_reload calls, and whether supervisorctl
\* restarted thermalctld.
restart_thermal_control_daemon(multi, release, find1, restart_rc, find2) ==
    IF multi /\ release \in {"201911"}
    THEN [ok |-> TRUE, log |-> <<>>, reloads |-> 0, restarted |-> FALSE]
    ELSE IF ~PidLookupOk(find1)
    THEN [ok |-> FALSE, log |-> <<FindPid(find1)>>, reloads |-> 0,
          restarted |-> FALSE]
    ELSE IF restart_rc = 0
    THEN [ok |-> PidLookupOk(find2),
          log |-> <<FindPid(find1), RestartCmd(restart_rc), FindPid(find2)>>,
          reloads |-> 0, restarted |-> TRUE]
    ELSE [ok |-> FALSE, log |-> <<FindPid(find1), RestartCmd(restart_rc)>>,
          reloads |-> 1, restarted |-> FALSE]

\* the effect of one restart_thermal_control_daemon call on the DUT and on
\* the caller; file_changed: the caller changed the policy file before it
RestartEffect(o, file_changed) ==
    /\ shell_log' = shell_log \o o.log
    /\ reloads' = reloads + o.reloads
    /\ stale' = IF o.restarted THEN FALSE ELSE (stale \/ file_changed)

Releases == {"201911", "202012"}

\* dut.facts['platform']
PlatformMlnx == <<"x", "8", "6", "-", "m", "l", "n", "x", "_", "s", "n">>

PlatformOther == <<"x", "8", "6", "-", "a", "r", "i", "s", "t", "a">>

Platforms == {PlatformMlnx, PlatformOther}

StrMlnx == <<"m", "l", "n", "x">>

MockerNames == {"FanStatusMocker", "SingleFanMocker"}

NoMockers ==
    /\ platform = <<>>
    /\ registered = {}
    /\ objects = <<>>
    /\ mockers = <<>>
    /\ deinit_calls = <<>>
    /\ reboots = 0

DutIdle ==
    /\ policy_file = "absent"
    /\ backup_file = "absent"
    /\ initial_policy = "absent"

\* a test calls restart_thermal_control_daemon(dut)
InitRestart ==
    /\ tcall = "restart_thermal_control_daemon"
    /\ tpc = "called"
    /\ is_multi_asic \in BOOLEAN
    /\ sonic_release \in Releases
    /\ DutIdle
    /\ NoMockers

\* a test enters "with ThermalPolicyFileContext(dut, src)": the DUT has a
\* policy file or none, and no backup file
InitContext ==
    /\ tcall = "ThermalPolicyFileContext"
    /\ tpc = "enter"
    /\ is_multi_asic \in BOOLEAN
    /\ sonic_release \in Releases
    /\ policy_file \in {"absent", "original"}
    /\ backup_file = "absent"
    /\ initial_policy = policy_file
    /\ NoMockers

\* a test uses the fixture mocker_factory: mockers = []
InitMockers ==
    /\ tcall = "mocker_factory"
    /\ tpc = "test"
    /\ platform \in Platforms
    /\ registered \in SUBSET MockerNames
    /\ objects = <<>>
    /\ mockers = <<>>
    /\ deinit_calls = <<>>
    /\ reboots = 0
    /\ is_multi_asic = FALSE
    /\ sonic_release = "202012"
    /\ DutIdle

InitThermal ==
    /\ NoPortCall
    /\ NoEosCall
    /\ NoMacsecCall
    /\ texc = "None"
    /\ stale = FALSE
    /\ shell_log = <<>>
    /\ reloads = 0
    /\ \/ InitRestart
       \/ InitContext
       \/ InitMockers

\* restart_thermal_control_daemon(dut) called by a test
RestartDaemon ==
    /\ tcall = "restart_thermal_control_daemon"
    /\ tpc = "called"
    /\ \E find1 \in ShellOutputs, restart_rc \in {0, 1}, find2 \in ShellOutputs :
          LET o == restart_thermal_control_daemon(is_multi_asic, sonic_release,
                                                  find1, restart_rc, find2)
          IN  /\ RestartEffect(o, FALSE)
              /\ tpc' = IF o.ok THEN "returned" ELSE "raised"
              /\ texc' = IF o.ok THEN "None" ELSE "AssertionError"
    /\ UNCHANGED <<tcall, is_multi_asic, sonic_release, policy_file,
                   backup_file, initial_policy, mockerVars, portVars, eosVars, macsecVars>>

\* ThermalPolicyFileContext.__enter__, lines 328-340: move the policy file to
\* the backup path if there is one, copy the test policy in, restart the
\* daemon.  When __enter__ raises, the with statement is left at once and
\* __exit__ is not called.
Enter ==
    /\ tcall = "ThermalPolicyFileContext"
    /\ tpc = "enter"
    /\ backup_file' = IF policy_file # "absent" THEN policy_file ELSE backup_file
    /\ policy_file' = "test"
    /\ \E find1 \in ShellOutputs, restart_rc \in {0, 1}, find2 \in ShellOutputs :
          LET o == restart_thermal_control_daemon(is_multi_asic, sonic_release,
                                                  find1, restart_rc, find2)
          IN  /\ RestartEffect(o, TRUE)
              /\ tpc' = IF o.ok THEN "body" ELSE "left"
              /\ texc' = IF o.ok THEN "None" ELSE "AssertionError"
    /\ UNCHANGED <<tcall, is_multi_asic, sonic_release, initial_policy,
                   mockerVars, portVars, eosVars, macsecVars>>

\* the body of the with statement (the test, for disable_thermal_policy):
\* it ends normally or with an exception; __exit__ is called either way
Body ==
    /\ tcall = "ThermalPolicyFileContext"
    /\ tpc = "body"
    /\ tpc' = "exit"
    /\ texc' \in {"None", "TestError"}
    /\ UNCHANGED <<tcall, dutVars, mockerVars, portVars, eosVars, macsecVars>>

\* ThermalPolicyFileContext.__exit__, lines 342-353: if the backup exists,
\* move it back and restart the daemon; it returns None, so an exception of
\* the body goes on after it
Exit ==
    /\ tcall = "ThermalPolicyFileContext"
    /\ tpc = "exit"
    /\ IF backup_file # "absent"
       THEN /\ policy_file' = backup_file
            /\ backup_file' = "absent"
            /\ \E find1 \in ShellOutputs, restart_rc \in {0, 1},
                  find2 \in ShellOutputs :
                  LET o == restart_thermal_control_daemon(
                               is_multi_asic, sonic_release, find1, restart_rc,
                               find2)
                  IN  /\ RestartEffect(o, TRUE)
                      /\ texc' = IF o.ok THEN texc ELSE "AssertionError"
       ELSE UNCHANGED <<policy_file, backup_file, shell_log, reloads, stale,
                        texc>>
    /\ tpc' = "left"
    /\ UNCHANGED <<tcall, is_multi_asic, sonic_release, initial_policy,
                   mockerVars, portVars, eosVars, macsecVars>>

\* _create_mocker(dut, mocker_name), lines 103-122; raises: whether the
\* deinit() of the object made will raise
create_mocker(mocker_name, raises) ==
    IF Contains(platform, StrMlnx)
    THEN IF mocker_name \in registered
         THEN LET mocker_object == [id |-> Len(objects) + 1,
                                    name |-> mocker_name, raises |-> raises]
              IN  /\ objects' = Append(objects, mocker_object)
                  /\ mockers' = Append(mockers, mocker_object)
                  /\ UNCHANGED <<tpc, texc>>
         ELSE UNCHANGED <<objects, mockers, tpc, texc>>
    ELSE /\ tpc' = "teardown"
         /\ texc' = "Skipped"
         /\ UNCHANGED <<objects, mockers>>

\* the test calls the factory
CreateMocker ==
    /\ tcall = "mocker_factory"
    /\ tpc = "test"
    /\ Len(objects) < MaxMockers
    /\ \E mocker_name \in MockerNames, raises \in BOOLEAN :
          create_mocker(mocker_name, raises)
    /\ UNCHANGED <<tcall, dutVars, platform, registered, deinit_calls,
                   reboots, portVars, eosVars, macsecVars>>

\* the test ends, and pytest resumes the fixture after its yield
EndTest ==
    /\ tcall = "mocker_factory"
    /\ tpc = "test"
    /\ tpc' = "teardown"
    /\ UNCHANGED <<tcall, texc, dutVars, mockerVars, portVars, eosVars, macsecVars>>

\* the index of the first mocker of list whose deinit() raises, 0 if none
FirstRaising(list) ==
    IF \E i \in DOMAIN list : list[i].raises
    THEN CHOOSE i \in DOMAIN list :
             /\ list[i].raises
             /\ \A j \in DOMAIN list : list[j].raises => i <= j
    ELSE 0

\* mutant: the try is inside the loop, every mocker is de-initialised
TeardownAll ==
    /\ tcall = "mocker_factory"
    /\ tpc = "teardown"
    /\ LET f == FirstRaising(mockers)
       IN  /\ deinit_calls' = [i \in 1..Len(mockers) |-> mockers[i].id]
           /\ reboots' = IF f = 0 THEN reboots ELSE reboots + 1
           /\ tpc' = IF f = 0 THEN "done" ELSE "failed"
           /\ texc' = IF f = 0 THEN texc ELSE "AssertionError"
    /\ UNCHANGED <<tcall, dutVars, platform, registered, objects, mockers,
                   portVars, eosVars, macsecVars>>

\* the code after the yield, lines 126-131: deinit() in list order inside
\* one try; the first exception ends the loop, reboots and fails
Teardown ==
    /\ tcall = "mocker_factory"
    /\ tpc = "teardown"
    /\ LET f == FirstRaising(mockers)
           last == IF f = 0 THEN Len(mockers) ELSE f
       IN  /\ deinit_calls' = [i \in 1..last |-> mockers[i].id]
           /\ reboots' = IF f = 0 THEN reboots ELSE reboots + 1
           /\ tpc' = IF f = 0 THEN "done" ELSE "failed"
           /\ texc' = IF f = 0 THEN texc ELSE "AssertionError"
    /\ UNCHANGED <<tcall, dutVars, platform, registered, objects, mockers,
                   portVars, eosVars, macsecVars>>

NextThermal ==
    \/ RestartDaemon
    \/ Enter
    \/ Body
    \/ Exit
    \/ CreateMocker
    \/ EndTest
    \/ Teardown

SpecThermal == InitThermal /\ [][NextThermal]_vars

(***************************************************************************)
(* tests/common/devices/eos.py: EosHost                                    *)
(*                                                                         *)
(* eos_config and eos_command run an Ansible module on the device and      *)
(* return its structured output; what the device answers is the            *)
(* environment's choice.  Strings that the code passes through lower()     *)
(* are sequences of characters.                                            *)
(***************************************************************************)

UpperCase == <<"A", "B", "C", "D", "E", "F", "G", "H", "I", "J", "K", "L", "M",
               "N", "O", "P", "Q", "R", "S", "T", "U", "V", "W", "X", "Y", "Z">>

LowerCase == <<"a", "b", "c", "d", "e", "f", "g", "h", "i", "j", "k", "l", "m",
               "n", "o", "p", "q", "r", "s", "t", "u", "v", "w", "x", "y", "z">>

\* str.lower(), character by character
LowerChar(c) ==
    IF \E i \in DOMAIN UpperCase : UpperCase[i] = c
    THEN LowerCase[CHOOSE i \in DOMAIN UpperCase : UpperCase[i] = c]
    ELSE c

Lower(str) == [i \in DOMAIN str |-> LowerChar(str[i])]

\* x in list
InList(x, list) == \E i \in DOMAIN list : list[i] = x

\* "10.0.0.1", "fc00::1" and "FC00::1"
AddrV4 == <<"1", "0", ".", "0", ".", "0", ".", "1">>

AddrV6 == <<"f", "c", "0", "0", ":", ":", "1">>

AddrV6Upper == <<"F", "C", "0", "0", ":", ":", "1">>

StrEstablished == <<"E", "s", "t", "a", "b", "l", "i", "s", "h", "e", "d">>

StrIdle == <<"I", "d", "l", "e">>

\* one item of ...['peers'].items(): the key and the fields of the value;
\* has_state / has_desc: whether 'peerState' / 'description' is a key of it
PeersOf(keys) ==
    {[key |-> k, has_state |-> TRUE, peerState |-> st, has_desc |-> hd,
      description |-> IF hd THEN "ARISTA01T1" ELSE ""] :
        k \in keys, st \in {StrEstablished, StrIdle}, hd \in BOOLEAN}
    \cup {[key |-> k, has_state |-> FALSE, peerState |-> <<>>,
           has_desc |-> FALSE, description |-> ""] : k \in keys}

HasDistinctKeys(peers) ==
    \A i, j \in DOMAIN peers : peers[i].key = peers[j].key => i = j

\* out['stdout'][0] of a summary command: 'BGP inactive' among the warnings
\* (then vrfs is {}), no vrfs/default/peers, or the peers of the default
\* VRF in the order items() yields them
SummariesOf(keys) ==
    {[inactive |-> TRUE, has_default |-> FALSE, peers |-> <<>>],
     [inactive |-> FALSE, has_default |-> FALSE, peers |-> <<>>]}
    \cup {[inactive |-> FALSE, has_default |-> TRUE, peers |-> ps] :
             ps \in {q \in SeqsUpTo(PeersOf(keys), MaxPeers) : HasDistinctKeys(q)}}

\* every session of the device shows in the v4 summary when ipv4-unicast is
\* active for it; the v6 summary shows the sessions to v6 addresses
SummariesV4 == SummariesOf({AddrV4, AddrV6})

SummariesV6 == SummariesOf({AddrV6, AddrV6Upper})

\* neigh_ips: distinct addresses, in either spelling
NeighIpLists ==
    {l \in SeqsUpTo({AddrV4, AddrV6, AddrV6Upper}, MaxNeigh) :
        \A i, j \in DOMAIN l : Lower(l[i]) = Lower(l[j]) => i = j}

NeighDescLists == {<<>>, <<"ARISTA01T1">>}

States == {Lower(StrEstablished), StrEstablished, Lower(StrIdle)}

\* the accumulators of check_bgp_session_state before the loops
NoneOk ==
    [neigh_ips_ok |-> <<>>, neigh_desc_ok |-> <<>>,
     neigh_desc_available |-> FALSE, key_error |-> FALSE]

\* the body of the two loops, lines 173-180 and 183-190, for one (k, v);
\* lower_key: the v6 loop tests k.lower(), the v4 loop tests k
LoopBody(acc, v, ips, desc, st, lower_key) ==
    IF ~v.has_state
    THEN [acc EXCEPT !.key_error = TRUE]
    ELSE IF Lower(v.peerState) = Lower(st)
    THEN LET k == IF lower_key THEN Lower(v.key) ELSE v.key
             a1 == IF InList(k, ips)
                   THEN [acc EXCEPT !.neigh_ips_ok = Append(@, v.key)]
                   ELSE acc
         IN  IF v.has_desc
             THEN [a1 EXCEPT !.neigh_desc_available = TRUE,
                             !.neigh_desc_ok =
                                 IF InList(v.description, desc)
                                 THEN Append(@, v.description) ELSE @]
             ELSE a1
    ELSE acc

RECURSIVE LoopPeers(_, _, _, _, _, _)
\* for k, v in peers.items(): ..., left at the first KeyError
LoopPeers(acc, peers, ips, desc, st, lower_key) ==
    IF peers = <<>> \/ acc.key_error
    THEN acc
    ELSE LoopPeers(LoopBody(acc, Head(peers), ips, desc, st, lower_key),
                   Tail(peers), ips, desc, st, lower_key)

\* the try block, lines 172-193: a summary without vrfs/default/peers raises
\* KeyError, and a KeyError ends the block with what was collected
TryLoops(ips, desc, st, v4, v6) ==
    LET a4 == IF v4.has_default
              THEN LoopPeers(NoneOk, v4.peers, ips, desc, st, FALSE)
              ELSE [NoneOk EXCEPT !.key_error = TRUE]
    IN  IF a4.key_error THEN a4
        ELSE IF v6.has_default
        THEN LoopPeers(a4, v6.peers, ips, desc, st, TRUE)
        ELSE [a4 EXCEPT !.key_error = TRUE]

\* check_bgp_session_state(neigh_ips, neigh_desc, state), lines 147-203: the
\* value returned, for the two summaries the device answered
check_bgp_session_state(ips_in, desc, st, v4, v6) ==
    LET ips == [i \in DOMAIN ips_in |-> Lower(ips_in[i])]
        a == TryLoops(ips, desc, st, v4, v6)
    IN  IF v4.inactive /\ v6.inactive
        THEN FALSE
        ELSE IF a.neigh_desc_available
        THEN Len(ips) = Len(a.neigh_ips_ok) /\ Len(desc) = Len(a.neigh_desc_ok)
        ELSE Len(ips) = Len(a.neigh_ips_ok)

EosOutputs == [failed : BOOLEAN, changed : BOOLEAN]

\* the eos_config call of lines 100-102 / 109-111 with the output it got
LacpCmd(word, m, output) == [lines |-> <<"lacp", word, m>>, output |-> output]

\* mutant: falls back to 'lacp timer' only when the first command failed
lacp_rate_mode_failed_only(m, out1, out2) ==
    IF out1.failed = TRUE
    THEN [cmds |-> <<LacpCmd("rate", m, out1), LacpCmd("timer", m, out2)>>,
          raised |-> (out2.changed = FALSE), out |-> out2]
    ELSE [cmds |-> <<LacpCmd("rate", m, out1)>>, raised |-> FALSE, out |-> out1]

\* set_interface_lacp_rate_mode(interface_name, mode), lines 99-119; out1 and
\* out2 are what the device answers to the first and to the second command
set_interface_lacp_rate_mode(m, out1, out2) ==
    IF out1.failed = TRUE \/ out1.changed = FALSE
    THEN [cmds |-> <<LacpCmd("rate", m, out1), LacpCmd("timer", m, out2)>>,
          raised |-> (out2.changed = FALSE), out |-> out2]
    ELSE [cmds |-> <<LacpCmd("rate", m, out1)>>, raised |-> FALSE, out |-> out1]

NoBgpCall ==
    /\ neigh_ips = <<>>
    /\ neigh_desc = <<>>
    /\ state = <<>>
    /\ out_v4 = NoSummary
    /\ out_v6 = NoSummary

InitBgp ==
    /\ ecall = "check_bgp_session_state"
    /\ neigh_ips \in NeighIpLists
    /\ neigh_desc \in NeighDescLists
    /\ state \in States
    /\ out_v4 = NoSummary
    /\ out_v6 = NoSummary
    /\ mode = ""

InitLacp ==
    /\ ecall = "set_interface_lacp_rate_mode"
    /\ mode \in {"fast", "normal"}
    /\ NoBgpCall

InitEos ==
    /\ NoPortCall
    /\ NoThermalCall
    /\ NoMacsecCall
    /\ epc = "called"
    /\ session_ok = FALSE
    /\ eos_cmds = <<>>
    /\ out = NoOutput
    /\ eexc = "None"
    /\ \/ InitBgp
       \/ InitLacp

\* check_bgp_session_state called by a test: the device answers the two
\* summary commands, the method returns
CheckBgpSessionState ==
    /\ ecall = "check_bgp_session_state"
    /\ epc = "called"
    /\ out_v4' \in SummariesV4
    /\ out_v6' \in SummariesV6
    /\ session_ok' = check_bgp_session_state(neigh_ips, neigh_desc, state,
                                             out_v4', out_v6')
    /\ epc' = "returned"
    /\ UNCHANGED <<ecall, neigh_ips, neigh_desc, state, mode, eos_cmds, out,
                   eexc, portVars, thermalVars, macsecVars>>

\* set_interface_lacp_rate_mode called by a test
SetInterfaceLacpRateMode ==
    /\ ecall = "set_interface_lacp_rate_mode"
    /\ epc = "called"
    /\ \E out1 \in EosOutputs, out2 \in EosOutputs :
          LET r == set_interface_lacp_rate_mode(mode, out1, out2)
          IN  /\ eos_cmds' = r.cmds
              /\ epc' = IF r.raised THEN "raised" ELSE "returned"
              /\ eexc' = IF r.raised THEN "Exception" ELSE "None"
              /\ out' = IF r.raised THEN out ELSE r.out
    /\ UNCHANGED <<ecall, neigh_ips, neigh_desc, state, out_v4, out_v6,
                   session_ok, mode, portVars, thermalVars, macsecVars>>

NextEos ==
    \/ CheckBgpSessionState
    \/ SetInterfaceLacpRateMode

SpecEos == InitEos /\ [][NextEos]_vars

(***************************************************************************)
(* tests/macsec/macsec_config_helper.py                                    *)
(*                                                                         *)
(* Every helper sends one sonic-db-cli command to one device; the command  *)
(* acts on the CONFIG_DB of that device when it is sent, so the statements *)
(* of setup_macsec_configuration are the steps of the model.               *)
(***************************************************************************)

DutPorts == {"Ethernet0", "Ethernet4", "Ethernet8"}

NbrPorts == {"Ethernet1", "Ethernet2"}

\* one item of ctrl_links.items(): dut_port and nbr = {"host": .., "port": ..}
Links == [dut_port : DutPorts, host : NbrHosts, port : NbrPorts]

\* ctrl_links is a dict keyed by dut_port, and a neighbour port ends one link;
\* several links may end on the same neighbour host
CtrlLinks ==
    {l \in SeqsUpTo(Links, MaxLinks) :
        \A a, b \in DOMAIN l :
            a # b => /\ l[a].dut_port # l[b].dut_port
                     /\ <<l[a].host, l[a].port>> # <<l[b].host, l[b].port>>}

DefaultPriorities == {64, 255}

\* set_macsec_profile(host, profile_name, priority, ...), lines 5-18: HMSET
\* writes every field of the profile
set_macsec_profile(host, priority) ==
    profile' = [profile EXCEPT ![host] = [present |-> TRUE, priority |-> priority]]

\* enable_macsec_port(host, port, profile_name), lines 26-29
enable_macsec_port(host, port) ==
    macsec_ports' = [macsec_ports EXCEPT ![host] = @ \cup {port}]

\* mutant: the parity test is turned round
NbrPriorityOdd(n, default) ==
    IF n % 2 = 1 THEN default - 1 ELSE default + 1

\* lines 58-61: the priority given to the neighbour of the link counted i
NbrPriority(n, default) ==
    IF n % 2 = 0 THEN default - 1 ELSE default + 1

\* the link of the current iteration: the counter i starts from 0
CurrentLink == ctrl_links[loop_i + 1]

InitSetup ==
    /\ mcall = "setup_macsec_configuration"
    /\ mpc = "set_dut_profile"
    /\ ctrl_links \in CtrlLinks
    /\ default_priority \in DefaultPriorities
    /\ loop_i = 0
    /\ CleanDb
    /\ devices = {}
    /\ waited = {}

InitMacsec ==
    /\ NoPortCall
    /\ NoThermalCall
    /\ NoEosCall
    /\ InitSetup

\* lines 53-55: the profile of the DUT, then i = 0
SetDutProfile ==
    /\ mcall = "setup_macsec_configuration"
    /\ mpc = "set_dut_profile"
    /\ set_macsec_profile("dut", default_priority)
    /\ loop_i' = 0
    /\ mpc' = IF ctrl_links = <<>> THEN "done" ELSE "enable_dut_port"
    /\ UNCHANGED <<mcall, ctrl_links, default_priority, macsec_ports,
                   devices, waited, portVars, thermalVars, eosVars>>

\* line 57
EnableDutPort ==
    /\ mcall = "setup_macsec_configuration"
    /\ mpc = "enable_dut_port"
    /\ enable_macsec_port("dut", CurrentLink.dut_port)
    /\ mpc' = "set_nbr_profile"
    /\ UNCHANGED <<mcall, ctrl_links, default_priority, loop_i, profile,
                   devices, waited, portVars, thermalVars, eosVars>>

\* lines 58-63
SetNbrProfile ==
    /\ mcall = "setup_macsec_configuration"
    /\ mpc = "set_nbr_profile"
    /\ set_macsec_profile(CurrentLink.host, NbrPriority(loop_i, default_priority))
    /\ mpc' = "enable_nbr_port"
    /\ UNCHANGED <<mcall, ctrl_links, default_priority, loop_i, macsec_ports,
                   devices, waited, portVars, thermalVars, eosVars>>

\* lines 64-65, and the next iteration or the end of the loop
EnableNbrPort ==
    /\ mcall = "setup_macsec_configuration"
    /\ mpc = "enable_nbr_port"
    /\ enable_macsec_port(CurrentLink.host, CurrentLink.port)
    /\ loop_i' = loop_i + 1
    /\ mpc' = IF loop_i + 1 = Len(ctrl_links) THEN "done" ELSE "enable_dut_port"
    /\ UNCHANGED <<mcall, ctrl_links, default_priority, profile,
                   devices, waited, portVars, thermalVars, eosVars>>

\* disable_macsec_port(host, port), lines 32-34
disable_macsec_port(host, port) ==
    macsec_ports' = [macsec_ports EXCEPT ![host] = @ \ {port}]

\* delete_macsec_profile(host, profile_name), lines 21-23
delete_macsec_profile(host) ==
    profile' = [profile EXCEPT ![host] = NoProfile]

\* the test that set MACsec up cleans it up with the same ctrl_links;
\* lines 38-39: devices = set(), devices.add(duthost)
CallCleanup ==
    /\ mcall = "setup_macsec_configuration"
    /\ mpc = "done"
    /\ mcall' = "cleanup_macsec_configuration"
    /\ devices' = {"dut"}
    /\ loop_i' = 0
    /\ mpc' = IF ctrl_links = <<>> THEN "delete_dut_profile" ELSE "disable_dut_port"
    /\ UNCHANGED <<ctrl_links, default_priority, profile, macsec_ports, waited,
                   portVars, thermalVars, eosVars>>

\* line 41
DisableDutPort ==
    /\ mcall = "cleanup_macsec_configuration"
    /\ mpc = "disable_dut_port"
    /\ disable_macsec_port("dut", CurrentLink.dut_port)
    /\ mpc' = "disable_nbr_port"
    /\ UNCHANGED <<mcall, ctrl_links, default_priority, loop_i, profile,
                   devices, waited, portVars, thermalVars, eosVars>>

\* line 42
DisableNbrPort ==
    /\ mcall = "cleanup_macsec_configuration"
    /\ mpc = "disable_nbr_port"
    /\ disable_macsec_port(CurrentLink.host, CurrentLink.port)
    /\ mpc' = "delete_nbr_profile"
    /\ UNCHANGED <<mcall, ctrl_links, default_priority, loop_i, profile,
                   devices, waited, portVars, thermalVars, eosVars>>

\* lines 43-44, and the next iteration or the end of the loop
DeleteNbrProfile ==
    /\ mcall = "cleanup_macsec_configuration"
    /\ mpc = "delete_nbr_profile"
    /\ delete_macsec_profile(CurrentLink.host)
    /\ devices' = devices \cup {CurrentLink.host}
    /\ loop_i' = loop_i + 1
    /\ mpc' = IF loop_i + 1 = Len(ctrl_links)
              THEN "delete_dut_profile" ELSE "disable_dut_port"
    /\ UNCHANGED <<mcall, ctrl_links, default_priority, macsec_ports, waited,
                   portVars, thermalVars, eosVars>>

\* line 45
DeleteDutProfile ==
    /\ mcall = "cleanup_macsec_configuration"
    /\ mpc = "delete_dut_profile"
    /\ delete_macsec_profile("dut")
    /\ mpc' = "wait"
    /\ UNCHANGED <<mcall, ctrl_links, default_priority, loop_i, macsec_ports,
                   devices, waited, portVars, thermalVars, eosVars>>

\* lines 47-48: for d in devices: assert wait_until(...).  A set is iterated
\* in no particular order; wait_until returns True when the device has no
\* MKA session within the timeout and False otherwise, and the assert then
\* ends the cleanup
WaitDevice ==
    /\ mcall = "cleanup_macsec_configuration"
    /\ mpc = "wait"
    /\ \E d \in devices \ waited, cleared \in BOOLEAN :
          IF cleared
          THEN /\ waited' = waited \cup {d}
               /\ mpc' = IF waited' = devices THEN "done" ELSE "wait"
          ELSE /\ waited' = waited
               /\ mpc' = "failed"
    /\ UNCHANGED <<mcall, ctrl_links, default_priority, loop_i, profile,
                   macsec_ports, devices, portVars, thermalVars, eosVars>>

NextMacsec ==
    \/ SetDutProfile
    \/ EnableDutPort
    \/ SetNbrProfile
    \/ EnableNbrPort
    \/ CallCleanup
    \/ DisableDutPort
    \/ DisableNbrPort
    \/ DeleteNbrProfile
    \/ DeleteDutProfile
    \/ WaitDevice

SpecMacsec == InitMacsec /\ [][NextMacsec]_vars

(***************************************************************************)
(* The claims.                                                             *)
(***************************************************************************)
IndicesReturned == call = "get_port_indices_for_asic" /\ pc = "returned"

\* the input names without / with 'BP', in input order
ClaimF == SelectSeq(port_name_list_sorted, LAMBDA p : ~Contains(p, <<"B", "P">>))
ClaimB == SelectSeq(port_name_list_sorted, LAMBDA p : Contains(p, <<"B", "P">>))

\* int(asic_id) * |F| when asic_id is present
ClaimOffset ==
    IF asic_id.kind = "none" THEN 0
    ELSE (IF asic_id.kind = "int" THEN asic_id.int ELSE ParseNat(asic_id.str))
         * Len(ClaimF)

\* C1: the result of get_port_indices_for_asic has exactly the input names
\* as keys, the k-th front-end name (k from 0) maps to offset + k and the
\* k-th back-end name maps to offset + k, with offset = int(asic_id) * |F|.
C1_IndexAssignment ==
    IndicesReturned =>
        /\ DOMAIN port_index_map = SeqRange(port_name_list_sorted)
        /\ \A k \in 0..(Len(ClaimF) - 1) :
               port_index_map[ClaimF[k + 1]] = ClaimOffset + k
        /\ \A k \in 0..(Len(ClaimB) - 1) :
               port_index_map[ClaimB[k + 1]] = ClaimOffset + k

C1_Witness ==
    /\ IndicesReturned
    /\ asic_id = StrId(<<"2">>)
    /\ Len(ClaimF) = 2
    /\ Len(ClaimB) = 1
    /\ port_index_map[ClaimF[2]] = 5
    /\ port_index_map[ClaimB[1]] = 4

\* C2: with asic_id None the offset is 0: the front-end ports get the
\* indices 0..|F|-1 and the back-end ports the indices 0..|B|-1, in order.
C2_NoneOffsetZero ==
    (IndicesReturned /\ asic_id = NoneId) =>
        /\ \A k \in 1..Len(ClaimF) : port_index_map[ClaimF[k]] = k - 1
        /\ \A k \in 1..Len(ClaimB) : port_index_map[ClaimB[k]] = k - 1
        /\ {port_index_map[ClaimF[k]] : k \in 1..Len(ClaimF)} = 0..(Len(ClaimF) - 1)
        /\ {port_index_map[ClaimB[k]] : k \in 1..Len(ClaimB)} = 0..(Len(ClaimB) - 1)

C2_Witness ==
    /\ IndicesReturned
    /\ asic_id = NoneId
    /\ Len(ClaimF) = 1
    /\ Len(ClaimB) = 2
    /\ port_index_map[ClaimB[2]] = 1

Min(a, b) == IF a <= b THEN a ELSE b

IsInjective(m) == \A x, y \in DOMAIN m : m[x] = m[y] => x = y

\* C3: when both partitions are non-empty, the i-th front-end port and the
\* i-th back-end port have the same index for every i < min(|F|, |B|), so
\* the name-to-index map is not injective.
C3_OverlappingIndices ==
    (IndicesReturned /\ Len(ClaimF) > 0 /\ Len(ClaimB) > 0) =>
        /\ \A i \in 1..Min(Len(ClaimF), Len(ClaimB)) :
               port_index_map[ClaimF[i]] = port_index_map[ClaimB[i]]
        /\ ~IsInjective(port_index_map)

C3_Witness ==
    /\ IndicesReturned
    /\ Len(ClaimF) = 2
    /\ Len(ClaimB) = 1
    /\ asic_id = IntId(1)
    /\ port_index_map[ClaimF[1]] = 2
    /\ port_index_map[ClaimB[1]] = 2

AliasCall == call = "get_port_alias_to_name_map"

\* the call went to the static table (the except ImportError block)
StaticPath == AliasCall /\ branch = "except"

\* the call read the port table (the try block ran to its end)
MetadataPath == AliasCall /\ branch = "try" /\ pc = "returned"

IsDecimal(s) ==
    /\ Len(s) > 0
    /\ \A i \in 1..Len(s) :
           s[i] \in {"0", "1", "2", "3", "4", "5", "6", "7", "8", "9"}

\* Ethernet<non-negative integer>
IsEthernetName(v) ==
    /\ Len(v) > 8
    /\ SubSeq(v, 1, 8) = <<"E", "t", "h", "e", "r", "n", "e", "t">>
    /\ IsDecimal(SubSeq(v, 9, Len(v)))

\* C4: in the static-table path an hwsku that matches no branch never
\* raises, and the alias map is exactly Ethernet<i> -> Ethernet<i> for
\* i = 0, 4, ..., 124 (32 entries).
C4_UnknownSkuDefault ==
    (AliasCall /\ service = "ImportError" /\ hwsku \notin Catalog /\ pc # "called") =>
        /\ pc = "returned"
        /\ exc = "None"
        /\ DOMAIN port_alias_to_name_map
               = {<<"E", "t", "h", "e", "r", "n", "e", "t">> \o DecNat(4 * j) : j \in 0..31}
        /\ \A k \in DOMAIN port_alias_to_name_map : port_alias_to_name_map[k] = k
        /\ Cardinality(DOMAIN port_alias_to_name_map) = 32

C4_Witness ==
    /\ StaticPath
    /\ pc = "returned"
    /\ hwsku = "totally-fake-sku-123"
    /\ Eth(124) \in DOMAIN port_alias_to_name_map
    /\ Eth(128) \notin DOMAIN port_alias_to_name_map

\* C5 as stated: for every SKU named in a branch of the static table the
\* static-table path returns a non-empty alias map whose values all have
\* the form Ethernet<non-negative integer>.
C5_CatalogNonEmpty ==
    (StaticPath /\ pc = "returned" /\ hwsku \in Catalog) =>
        /\ DOMAIN port_alias_to_name_map # {}
        /\ \A k \in DOMAIN port_alias_to_name_map :
               IsEthernetName(port_alias_to_name_map[k])

\* C5 (amended): for every SKU named in a branch of the static table the
\* static-table path returns an alias map whose values all have the form
\* Ethernet<non-negative integer>; the map is non-empty for every such SKU
\* except Nokia-IXR7250E-SUP-10, for which it is empty.
C5_CatalogValues ==
    (StaticPath /\ pc = "returned" /\ hwsku \in Catalog) =>
        /\ (DOMAIN port_alias_to_name_map = {}) <=> (hwsku = "Nokia-IXR7250E-SUP-10")
        /\ \A k \in DOMAIN port_alias_to_name_map :
               IsEthernetName(port_alias_to_name_map[k])

C5_Witness ==
    /\ StaticPath
    /\ pc = "returned"
    /\ hwsku = "Arista-7050-QX-32S"
    /\ Cardinality(DOMAIN port_alias_to_name_map) = 35
    /\ port_alias_to_name_map[<<"E", "t", "h", "e", "r", "n", "e", "t", "6", "/", "1">>]
           = <<"E", "t", "h", "e", "r", "n", "e", "t", "4">>

\* m is the map the claim describes for the ports `allp` of which `s100G`
\* are 100G ports
Is50GMap(m, allp, s100G) ==
    /\ \A p \in allp \ s100G :
           /\ EthSlash(p, 1) \in DOMAIN m /\ m[EthSlash(p, 1)] = Eth((p - 1) * 4)
           /\ EthSlash(p, 3) \in DOMAIN m /\ m[EthSlash(p, 3)] = Eth((p - 1) * 4 + 2)
    /\ \A p \in s100G :
           /\ EthSlash(p, 1) \in DOMAIN m /\ m[EthSlash(p, 1)] = Eth((p - 1) * 4)
           /\ EthSlash(p, 3) \notin DOMAIN m
    /\ DOMAIN m = {EthSlash(p, 1) : p \in allp \cup s100G}
                  \cup {EthSlash(p, 3) : p \in allp \ s100G}
    /\ Cardinality(DOMAIN m)
           = 2 * Cardinality(allp \ s100G) + Cardinality(s100G)

\* C6: _port_alias_to_name_map_50G gives every port of all_ports that is
\* not in s100G_ports exactly the entries /1 -> Ethernet<(p-1)*4> and
\* /3 -> Ethernet<(p-1)*4+2>, every port of s100G_ports exactly the entry
\* /1 -> Ethernet<(p-1)*4> and no /3 entry, and nothing else; so do the two
\* branches of the static table that call it.
C6_Map50G ==
    /\ (call = "_port_alias_to_name_map_50G" /\ pc = "returned") =>
           Is50GMap(new_map, SeqRange(all_ports), SeqRange(s100G_ports))
    /\ (StaticPath /\ pc = "returned" /\ hwsku = "Arista-7060CX-32S-D48C8") =>
           Is50GMap(port_alias_to_name_map, 1..32, (7..10) \cup (23..26))
    /\ (StaticPath /\ pc = "returned" /\ hwsku = "Arista-7260CX3-D108C8") =>
           Is50GMap(port_alias_to_name_map, 1..64, 13..20)

C6_Witness ==
    /\ call = "_port_alias_to_name_map_50G"
    /\ pc = "returned"
    /\ all_ports = <<1, 2>>
    /\ s100G_ports = <<2, 3>>
    /\ DOMAIN new_map = {EthSlash(1, 1), EthSlash(1, 3), EthSlash(2, 1), EthSlash(3, 1)}

\* the ports of the table whose record has field f
PortsWith(f) == {port \in DOMAIN ports_info : f \in DOMAIN ports_info[port]}

\* map m (value of field f -> port) holds what the records with field f
\* wrote and nothing else: its keys are the values of f, each key maps to a
\* port that carries it (to the port, when only one carries it), and a port
\* without the field is not a value
RecordedFrom(m, f) ==
    /\ DOMAIN m = {ports_info[port][f] : port \in PortsWith(f)}
    /\ \A port \in PortsWith(f) :
           LET v == ports_info[port][f]
           IN /\ ports_info[m[v]][f] = v
              /\ (\A other \in PortsWith(f) : ports_info[other][f] = v => other = port)
                     => m[v] = port
    /\ \A port \in DOMAIN ports_info \ PortsWith(f) : port \notin Values(m)

\* C7: in the metadata-driven path alias -> port is recorded iff the record
\* has an 'alias' field, asic_port_name -> port iff it has an
\* 'asic_port_name' field, and port -> int(index) iff it has an 'index'
\* field and hwsku is 8800-LC-48H-O or 88-LC0-36FH-MO; a record lacking a
\* field is skipped for that map and the call does not fail.
C7_PerRecordFields ==
    /\ (AliasCall /\ service = "ok" /\ pc # "called") => pc = "returned" /\ exc = "None"
    /\ MetadataPath =>
           /\ RecordedFrom(port_alias_to_name_map, "alias")
           /\ RecordedFrom(port_alias_asic_map, "asic_port_name")
           /\ \A port \in DOMAIN ports_info :
                  port \in DOMAIN port_name_to_index_map
                      <=> /\ "index" \in DOMAIN ports_info[port]
                          /\ hwsku \in {"8800-LC-48H-O", "88-LC0-36FH-MO"}
           /\ DOMAIN port_name_to_index_map \subseteq DOMAIN ports_info
           /\ \A port \in DOMAIN port_name_to_index_map :
                  /\ port_name_to_index_map[port] = ParseNat(ports_info[port]["index"])
                  /\ ports_info[port]["index"] = <<"1", "2">>
                         => port_name_to_index_map[port] = 12

C7_Witness ==
    /\ MetadataPath
    /\ hwsku = "88-LC0-36FH-MO"
    /\ DOMAIN ports_info = {Eth(0), Eth(4)}
    /\ DOMAIN ports_info[Eth(0)] = {"alias", "index"}
    /\ DOMAIN ports_info[Eth(4)] = {"asic_port_name"}
    /\ DOMAIN port_alias_to_name_map = {ports_info[Eth(0)]["alias"]}
    /\ port_alias_asic_map[<<"E", "t", "h", "0">>] = Eth(4)
    /\ port_name_to_index_map[Eth(0)] = 12
    /\ Eth(4) \notin DOMAIN port_name_to_index_map

\* C8: when the port table was read, every entry of the returned alias map
\* comes from a record of the port table and no static rule adds one, for
\* every hwsku; with an empty port table the alias map is empty.
C8_MetadataOnly ==
    MetadataPath =>
        /\ \A a \in DOMAIN port_alias_to_name_map :
               \E port \in DOMAIN ports_info :
                   /\ "alias" \in DOMAIN ports_info[port]
                   /\ ports_info[port]["alias"] = a
                   /\ port_alias_to_name_map[a] = port
        /\ (DOMAIN ports_info = {}) => (DOMAIN port_alias_to_name_map = {})

C8_Witness ==
    /\ MetadataPath
    /\ hwsku = "Force10-S6000"
    /\ DOMAIN ports_info = {}
    /\ DOMAIN port_alias_to_name_map = {}
    /\ DOMAIN StaticTable(hwsku) # {}

AllowList == {"8800-LC-48H-O", "88-LC0-36FH-MO"}

\* C9: a call that returns returns the three maps; in the static-table path
\* the asic map and the index map are empty for every hwsku, also for
\* 8800-LC-48H-O and 88-LC0-36FH-MO, and in any path the index map is
\* non-empty only if hwsku is one of these two.
C9_TripleShape ==
    (AliasCall /\ pc = "returned") =>
        /\ branch \in {"try", "except"}
        /\ branch = "except" =>
               /\ DOMAIN port_alias_asic_map = {}
               /\ DOMAIN port_name_to_index_map = {}
        /\ (DOMAIN port_name_to_index_map # {}) => hwsku \in AllowList

C9_Witness ==
    /\ StaticPath
    /\ pc = "returned"
    /\ hwsku = "8800-LC-48H-O"
    /\ Cardinality(DOMAIN port_alias_to_name_map) = 48
    /\ DOMAIN port_alias_asic_map = {}
    /\ DOMAIN port_name_to_index_map = {}

\* C10: when the metadata service is unreachable (an import of the try block
\* raises ImportError) the call does not fail: it takes the static-table
\* path and returns the static result for the hwsku.
C10_UnreachableFallsBack ==
    (AliasCall /\ service = "ImportError" /\ pc # "called") =>
        /\ pc = "returned"
        /\ exc = "None"
        /\ branch = "except"
        /\ port_alias_to_name_map = StaticTable(hwsku)
        /\ hwsku = "Force10-S6000" =>
               /\ Cardinality(DOMAIN port_alias_to_name_map) = 32
               /\ port_alias_to_name_map[StrFortyGigE0 \o <<"1", "2", "4">>] = Eth(124)

C10_Witness ==
    /\ AliasCall
    /\ service = "ImportError"
    /\ pc = "returned"
    /\ hwsku = "Force10-S6000"
    /\ asic_name = "asic0"
    /\ port_alias_to_name_map[StrFortyGigE0 \o <<"0">>] = Eth(0)

\* C11 as stated: a call returns or raises, a raise happens only in the try
\* block, and every error of the database-load step (load_db_config() /
\* get_port_table()) reaches the caller: it is never swallowed and never
\* turned into a static-table result.
C11_DbErrorNeverSwallowed ==
    (AliasCall /\ pc # "called") =>
        /\ pc \in {"returned", "raised"}
        /\ pc = "raised" => branch = "try"
        /\ service \in {"DbError", "DbImportError"} =>
               /\ pc = "raised"
               /\ exc # "None"
               /\ branch # "except"

\* C11: a call to get_port_alias_to_name_map has exactly two outcomes, a
\* returned triple of maps or a raise out of the try block.  An error of the
\* database-load step that is no ImportError reaches the caller unchanged
\* and nothing is returned; an ImportError raised by the database-load step
\* is caught by the except clause like a failed import and the call returns
\* the static-table result for the hwsku.
C11_TwoOutcomes ==
    (AliasCall /\ pc # "called") =>
        /\ pc \in {"returned", "raised"}
        /\ pc = "returned" => exc = "None"
        /\ pc = "raised" =>
               /\ branch = "try"
               /\ service = "DbError"
        /\ service = "DbError" =>
               /\ pc = "raised"
               /\ exc = "DbError"
               /\ branch # "except"
               /\ port_alias_to_name_map = EmptyDict
        /\ service = "DbImportError" =>
               /\ pc = "returned"
               /\ branch = "except"
               /\ port_alias_to_name_map = StaticTable(hwsku)
               /\ port_alias_asic_map = EmptyDict
               /\ port_name_to_index_map = EmptyDict

C11_Witness ==
    /\ AliasCall
    /\ service = "DbImportError"
    /\ pc = "returned"
    /\ branch = "except"
    /\ hwsku = "Force10-S6000"
    /\ port_alias_to_name_map[StrFortyGigE0 \o <<"4">>] = Eth(4)

\* C12: in the static-table path exactly one rule is applied per call, the
\* first branch in declaration order whose condition accepts hwsku (the
\* else branch when none does).  "INGRASYS-S9100-C32" is accepted by two
\* branches: the result is that of the first one, Ethernet<i>/1 ->
\* Ethernet<(i-1)*4> for i in 1..32, and the later branch is not taken.
C12_FirstMatchWins ==
    (StaticPath /\ pc = "returned") =>
        /\ rule \in 1..ElseBranch
        /\ rule # ElseBranch => hwsku \in BranchSkus[rule]
        /\ \A j \in DOMAIN BranchSkus : j < rule => hwsku \notin BranchSkus[j]
        /\ port_alias_to_name_map = RuleOf(rule)
        /\ hwsku = "INGRASYS-S9100-C32" =>
               /\ Cardinality({j \in DOMAIN BranchSkus : hwsku \in BranchSkus[j]}) = 2
               /\ \A j \in DOMAIN BranchSkus : hwsku \in BranchSkus[j] => rule <= j
               /\ DOMAIN port_alias_to_name_map = {EthSlash(i, 1) : i \in 1..32}
               /\ \A i \in 1..32 :
                      port_alias_to_name_map[EthSlash(i, 1)] = Eth((i - 1) * 4)

C12_Witness ==
    /\ StaticPath
    /\ pc = "returned"
    /\ hwsku = "INGRASYS-S9100-C32"
    /\ rule = 17
    /\ "INGRASYS-S9100-C32" \in BranchSkus[rule + 1]
    /\ port_alias_to_name_map[EthSlash(32, 1)] = Eth(124)

\* the SKUs of lines 179-201 whose loop writes "Ethernet%d" % i on both sides
IdentitySkus ==
    {"et6448m", "Nokia-IXR7250E-36x400G", "newport", "32x100Gb", "36x100Gb",
     "64x100Gb", "8800-LC-48H-O", "88-LC0-36FH-MO"}

\* the virtual switch SKUs of lines 202-207
VirtualSkus == {"msft_multi_asic_vs", "msft_four_asic_vs"}

\* C13 as stated: for the SKUs without front-panel aliasing, the virtual
\* switch SKUs msft_multi_asic_vs and msft_four_asic_vs included, every
\* alias of the static-table map equals the name it maps to.
C13_IdentityAll ==
    (StaticPath /\ pc = "returned" /\ hwsku \in IdentitySkus \cup VirtualSkus) =>
        /\ port_alias_to_name_map # EmptyDict
        /\ \A a \in DOMAIN port_alias_to_name_map :
               port_alias_to_name_map[a] = a

\* C13: for et6448m, Nokia-IXR7250E-36x400G, newport, 32x100Gb, 36x100Gb,
\* 64x100Gb, 8800-LC-48H-O and 88-LC0-36FH-MO the static-table alias map is
\* the identity over a flat range (Ethernet<i> -> Ethernet<i>).  The
\* virtual switch SKUs are not identity-mapped: msft_multi_asic_vs maps
\* Ethernet1/<i> -> Ethernet<(i-1)*4> for i in 1..64 and msft_four_asic_vs
\* does so for i in 1..8, so no alias of theirs equals its name.
C13_IdentityFlat ==
    (StaticPath /\ pc = "returned") =>
        /\ hwsku \in IdentitySkus =>
               /\ port_alias_to_name_map # EmptyDict
               /\ \A a \in DOMAIN port_alias_to_name_map :
                      /\ IsEthernetName(a)
                      /\ port_alias_to_name_map[a] = a
        /\ hwsku = "newport" =>
               DOMAIN port_alias_to_name_map = {Eth(8 * k) : k \in 0..31}
        /\ hwsku = "et6448m" =>
               DOMAIN port_alias_to_name_map = {Eth(i) : i \in 0..51}
        /\ hwsku \in VirtualSkus =>
               LET n == IF hwsku = "msft_multi_asic_vs" THEN 64 ELSE 8
               IN  /\ DOMAIN port_alias_to_name_map = {EthSlash(1, i) : i \in 1..n}
                   /\ \A i \in 1..n :
                          port_alias_to_name_map[EthSlash(1, i)] = Eth((i - 1) * 4)
                   /\ \A a \in DOMAIN port_alias_to_name_map :
                          port_alias_to_name_map[a] # a

C13_Witness ==
    /\ StaticPath
    /\ pc = "returned"
    /\ hwsku = "msft_four_asic_vs"
    /\ port_alias_to_name_map[EthSlash(1, 8)] = Eth(28)

\* C15: ThermalPolicyFileContext restores the policy file: for every initial
\* DUT state (policy file present or absent, no backup file), once the
\* with-block is left, also when __enter__ or the body failed, the policy
\* file is back in its initial state, no backup file remains, and
\* thermalctld was restarted after the last change to the file.
C15_PolicyRestored ==
    (tcall = "ThermalPolicyFileContext" /\ tpc = "left") =>
        /\ policy_file = initial_policy
        /\ backup_file = "absent"
        /\ ~stale

\* the commands of one restart_thermal_control_daemon call that ran to its
\* end: pid lookup, restart, pid lookup, each with rc 0 and at least 2
\* processes found
FullRestartLog(log) ==
    /\ Len(log) = 3
    /\ log[1].cmd = "find_thermalctld_pid_cmd" /\ log[1].rc = 0 /\ log[1].lines >= 2
    /\ log[2].cmd = "restart_thermalctl_cmd" /\ log[2].rc = 0
    /\ log[3].cmd = "find_thermalctld_pid_cmd" /\ log[3].rc = 0 /\ log[3].lines >= 2

RestartFailedIn(log) ==
    \E i \in DOMAIN log : log[i].cmd = "restart_thermalctl_cmd" /\ log[i].rc # 0

\* C18: restart_thermal_control_daemon returns normally only in two cases:
\* the DUT is multi-ASIC on release 201911 and no command was run, or the
\* pid lookup before the restart succeeded with at least 2 processes, the
\* restart returned rc 0 and the pid lookup after it succeeded with at
\* least 2 processes.  If the restart command returns non-zero,
\* config_reload is called exactly once and the function fails; it is
\* called in no other case.
C18_RestartOutcomes ==
    (tcall = "restart_thermal_control_daemon" /\ tpc # "called") =>
        /\ tpc \in {"returned", "raised"}
        /\ tpc = "returned" =>
               /\ texc = "None"
               /\ reloads = 0
               /\ \/ /\ is_multi_asic
                     /\ sonic_release = "201911"
                     /\ shell_log = <<>>
                  \/ /\ ~(is_multi_asic /\ sonic_release = "201911")
                     /\ FullRestartLog(shell_log)
        /\ RestartFailedIn(shell_log) =>
               /\ reloads = 1
               /\ tpc = "raised"
               /\ texc = "AssertionError"
        /\ ~RestartFailedIn(shell_log) => reloads = 0

C18_Witness ==
    /\ tcall = "restart_thermal_control_daemon"
    /\ tpc = "returned"
    /\ ~is_multi_asic
    /\ FullRestartLog(shell_log)
    /\ ~stale

\* the ids of the mocker objects of list, in list order
Ids(list) == [i \in DOMAIN list |-> list[i].id]

\* C19: mocker_factory teardown.  Mockers are recorded only when a
\* registered type exists on a 'mlnx' platform, and every object created is
\* recorded.  After the test deinit() is called in creation order, at most
\* once per object: on every object if no deinit() raises (the teardown
\* then passes without a reboot); if one raises, on the objects up to the
\* raising one only, the DUT is rebooted exactly once and the teardown fails.
C19_Teardown ==
    (tcall = "mocker_factory") =>
        /\ mockers = objects
        /\ \A i \in DOMAIN objects : objects[i].id = i
        /\ \A i \in DOMAIN mockers :
               /\ mockers[i].name \in registered
               /\ Contains(platform, StrMlnx)
        /\ tpc \in {"test", "teardown"} => (deinit_calls = <<>> /\ reboots = 0)
        /\ tpc \in {"done", "failed"} =>
               LET raising == {i \in DOMAIN objects : objects[i].raises}
               IN  /\ raising = {} =>
                          /\ tpc = "done"
                          /\ deinit_calls = Ids(objects)
                          /\ reboots = 0
                          /\ texc # "AssertionError"
                   /\ raising # {} =>
                          /\ tpc = "failed"
                          /\ texc = "AssertionError"
                          /\ reboots = 1
                          /\ \E f \in raising :
                                 /\ \A g \in raising : f <= g
                                 /\ deinit_calls = SubSeq(Ids(objects), 1, f)

C19_Witness ==
    /\ tcall = "mocker_factory"
    /\ tpc = "failed"
    /\ Len(objects) = 2
    /\ objects[1].raises
    /\ deinit_calls = <<1>>
    /\ reboots = 1

\* some peer of the default VRF of summary has the address ip (compared
\* without case) and a peerState equal to st (compared without case)
PeerInState(summary, ip, st) ==
    /\ summary.has_default
    /\ \E i \in DOMAIN summary.peers :
           /\ Lower(summary.peers[i].key) = Lower(ip)
           /\ summary.peers[i].has_state
           /\ Lower(summary.peers[i].peerState) = Lower(st)

\* C16: check_bgp_session_state returns True only if every address of
\* neigh_ips is a peer of the default VRF in the v4 or the v6 summary whose
\* peerState equals state; it returns False whenever both summaries carry
\* the 'BGP inactive' warning; no KeyError leaves the method.
C16_BgpSessionState ==
    (ecall = "check_bgp_session_state" /\ epc # "called") =>
        /\ epc = "returned"
        /\ eexc = "None"
        /\ (out_v4.inactive /\ out_v6.inactive) => ~session_ok
        /\ session_ok =>
               \A i \in DOMAIN neigh_ips :
                   \/ PeerInState(out_v4, neigh_ips[i], state)
                   \/ PeerInState(out_v6, neigh_ips[i], state)

\* C17: set_interface_lacp_rate_mode issues 'lacp rate <mode>' first and
\* 'lacp timer <mode>' only if the first command failed or reported
\* changed == False; it raises exactly when the second command was issued
\* and reported changed == False (so also when both commands report no
\* change); otherwise it returns the output of the last command issued.
C17_LacpRateMode ==
    (ecall = "set_interface_lacp_rate_mode" /\ epc # "called") =>
        /\ Len(eos_cmds) \in {1, 2}
        /\ eos_cmds[1].lines = <<"lacp", "rate", mode>>
        /\ Len(eos_cmds) = 2 <=>
               (eos_cmds[1].output.failed \/ ~eos_cmds[1].output.changed)
        /\ Len(eos_cmds) = 2 => eos_cmds[2].lines = <<"lacp", "timer", mode>>
        /\ epc = "raised" <=>
               (Len(eos_cmds) = 2 /\ ~eos_cmds[2].output.changed)
        /\ epc = "raised" => eexc = "Exception"
        /\ epc # "raised" =>
               /\ epc = "returned"
               /\ eexc = "None"
               /\ out = eos_cmds[Len(eos_cmds)].output

C17_Witness ==
    /\ ecall = "set_interface_lacp_rate_mode"
    /\ epc = "raised"
    /\ Len(eos_cmds) = 2
    /\ ~eos_cmds[1].output.failed /\ ~eos_cmds[1].output.changed
    /\ ~eos_cmds[2].output.failed /\ ~eos_cmds[2].output.changed

\* on every device, macsec is enabled on a port only when the profile is
\* there, and the DUT profile carries default_priority
SetupOrder ==
    /\ \A d \in Devices : macsec_ports[d] # {} => profile[d].present
    /\ mpc # "set_dut_profile" =>
           profile["dut"] = [present |-> TRUE, priority |-> default_priority]
    /\ \A h \in NbrHosts :
           profile[h].present => profile[h].priority # profile["dut"].priority

\* C20 as stated: during setup_macsec_configuration the profile of a device
\* is written before macsec is enabled on any port of it; the DUT profile
\* carries default_priority; the neighbour of the k-th control link (k from
\* 0) carries default_priority - 1 when k is even and default_priority + 1
\* when k is odd; no neighbour has the priority of the DUT.
C20_PriorityByLink ==
    (mcall = "setup_macsec_configuration") =>
        /\ SetupOrder
        /\ mpc = "done" =>
               \A k \in 0..(Len(ctrl_links) - 1) :
                   profile[ctrl_links[k + 1].host].priority =
                       IF k % 2 = 0 THEN default_priority - 1
                       ELSE default_priority + 1

\* C20: during setup_macsec_configuration the profile of a device is
\* written before macsec is enabled on any port of it; the DUT profile
\* carries default_priority; the profile written to the neighbour of the
\* k-th control link (k from 0) carries default_priority - 1 when k is even
\* and default_priority + 1 when k is odd, so no neighbour ever has the
\* priority of the DUT.  When several links end on the same neighbour host
\* each write replaces the one before: after the setup a neighbour host
\* carries the priority of the last of its links.
C20_SetupOrder ==
    (mcall = "setup_macsec_configuration") =>
        /\ SetupOrder
        /\ mpc = "enable_nbr_port" =>
               profile[ctrl_links[loop_i + 1].host].priority =
                   IF loop_i % 2 = 0 THEN default_priority - 1
                   ELSE default_priority + 1
        /\ mpc = "done" =>
               \A h \in NbrHosts :
                   LET ks == {k \in 0..(Len(ctrl_links) - 1) :
                                 ctrl_links[k + 1].host = h}
                   IN  /\ profile[h].present <=> ks # {}
                       /\ ks # {} =>
                              \E k \in ks :
                                  /\ \A j \in ks : j <= k
                                  /\ profile[h].priority =
                                         IF k % 2 = 0 THEN default_priority - 1
                                         ELSE default_priority + 1
                       /\ macsec_ports[h] =
                              {ctrl_links[k + 1].port : k \in ks}

C20_Witness ==
    /\ mcall = "setup_macsec_configuration"
    /\ mpc = "done"
    /\ Len(ctrl_links) = 2
    /\ ctrl_links[1].host = ctrl_links[2].host
    /\ profile[ctrl_links[1].host].priority = default_priority + 1
    /\ macsec_ports["dut"] = {ctrl_links[1].dut_port, ctrl_links[2].dut_port}

\* the control-link ports of device d
LinkPorts(d) ==
    IF d = "dut"
    THEN {ctrl_links[k].dut_port : k \in DOMAIN ctrl_links}
    ELSE {ctrl_links[k].port : k \in {j \in DOMAIN ctrl_links : ctrl_links[j].host = d}}

\* the devices of the cleanup: the DUT and the neighbour host of every link
Involved == {"dut"} \cup {ctrl_links[k].host : k \in DOMAIN ctrl_links}

\* C21: during cleanup_macsec_configuration the MACsec profile of a device
\* is deleted only after macsec has been disabled on every control-link
\* port of that device, for the DUT and for every neighbour host, also when
\* several control links end on the same neighbour host; when the cleanup
\* is done every device involved was waited on until it had no MKA session.
C21_CleanupOrder ==
    (mcall = "cleanup_macsec_configuration") =>
        /\ \A d \in Involved :
               ~profile[d].present => macsec_ports[d] \cap LinkPorts(d) = {}
        /\ mpc \in {"wait", "done", "failed"} =>
               /\ devices = Involved
               /\ \A d \in Involved : ~profile[d].present
        /\ mpc = "done" => waited = Involved

\* C22: for Arista-7800R3-48CQ-LC and Arista-7800R3K-48CQ-LC the static
\* alias map covers all 48 front-panel ports: it holds Ethernet<i>/1 ->
\* Ethernet<(i-1)*4> for every i in 1..48 and has exactly 48 entries.
C22_All48Ports ==
    (StaticPath /\ pc = "returned"
       /\ hwsku \in {"Arista-7800R3-48CQ-LC", "Arista-7800R3K-48CQ-LC"}) =>
        /\ Cardinality(DOMAIN port_alias_to_name_map) = 48
        /\ \A i \in 1..48 :
               /\ EthSlash(i, 1) \in DOMAIN port_alias_to_name_map
               /\ port_alias_to_name_map[EthSlash(i, 1)] = Eth((i - 1) * 4)

====
